---- MODULE Spec2Model ----
(***************************************************************************)
(* Model of the LoanRepay calculation core (src/src/calculator.py) and of  *)
(* the schedule endpoints that call it (src/src/routers/schedule.py).      *)
(*                                                                         *)
(* Representation of the code's values:                                    *)
(*   - money is an integer number of cents; the code's round(x, 2) of a    *)
(*     sum or difference of cent amounts is therefore the identity, and    *)
(*     round(x, 2) of a product or quotient is RoundHalfEven;              *)
(*   - the principal argument is an integer number of mills (tenths of a   *)
(*     cent), so that round(principal, 2) is a real rounding;              *)
(*   - an annual rate is an integer numerator over RateDen;                *)
(*   - a date is its proleptic Gregorian ordinal (date.toordinal());       *)
(*   - an optional value is <<>> (None) or <<v>>.                          *)
(***************************************************************************)
EXTENDS Integers, Sequences, FiniteSets, Bags, TLC

(***************************************************************************)
(* Program constants and units                                             *)
(***************************************************************************)
MAX_ITERATIONS == 2000
ZERO_THRESHOLD == 1
MaxBisectionSteps == 100
DeadBand == 10
RateDen == 10
MillsPerCent == 10
\* the binary exponent at which a Python float overflows
FloatMaxExp == 1024

NoneVal == <<>>
Some(v) == <<v>>
IsNone(o) == o = <<>>

NoWarning == "none"
WarnInterest == "Repayment does not cover interest. Loan will not be paid off."
WarnExceeded == "Schedule exceeded 2000 periods."

(***************************************************************************)
(* Arithmetic                                                              *)
(***************************************************************************)
Abs(x) == IF x < 0 THEN -x ELSE x
Max(a, b) == IF a >= b THEN a ELSE b
Min(a, b) == IF a <= b THEN a ELSE b

RECURSIVE GCD(_, _)
GCD(a, b) == IF b = 0 THEN a ELSE GCD(b, a % b)

RECURSIVE Pow(_, _)
Pow(b, n) == IF n = 0 THEN 1 ELSE b * Pow(b, n - 1)

\* round(n / d) to the nearest integer, ties to even (Python's round), d > 0
RoundHalfEven(n, d) ==
    LET q == n \div d
        r == n % d
    IN  IF 2 * r < d THEN q
        ELSE IF 2 * r > d THEN q + 1
        ELSE IF q % 2 = 0 THEN q ELSE q + 1

(***************************************************************************)
(* Calendar: datetime.date ordinals and dateutil's relativedelta(months=k) *)
(***************************************************************************)
IsLeap(y) == (y % 4 = 0 /\ y % 100 # 0) \/ y % 400 = 0

DaysInMonth(y, m) ==
    IF m = 2 THEN (IF IsLeap(y) THEN 29 ELSE 28)
    ELSE IF m \in {4, 6, 9, 11} THEN 30 ELSE 31

DaysBeforeYear(y) ==
    LET p == y - 1 IN (p * 365) + (p \div 4) - (p \div 100) + (p \div 400)

RECURSIVE DaysBeforeMonth(_, _)
DaysBeforeMonth(y, m) ==
    IF m = 1 THEN 0 ELSE DaysBeforeMonth(y, m - 1) + DaysInMonth(y, m - 1)

ToOrdinal(y, m, d) == DaysBeforeYear(y) + DaysBeforeMonth(y, m) + d

FromOrdinal(n) ==
    LET y == CHOOSE yy \in (n \div 366)..((n \div 365) + 1) :
                 DaysBeforeYear(yy) < n /\ n <= DaysBeforeYear(yy + 1)
        doy == n - DaysBeforeYear(y)
        m == CHOOSE mm \in 1..12 :
                 DaysBeforeMonth(y, mm) < doy
                 /\ doy <= DaysBeforeMonth(y, mm) + DaysInMonth(y, mm)
    IN  [year |-> y, month |-> m, day |-> doy - DaysBeforeMonth(y, m)]

\* start + relativedelta(months=k): the day is clamped to the month's length
AddMonths(n, k) ==
    LET s == FromOrdinal(n)
        t == s.year * 12 + (s.month - 1) + k
        y == t \div 12
        m == (t % 12) + 1
    IN  ToOrdinal(y, m, Min(s.day, DaysInMonth(y, m)))

periods_per_year(frequency) ==
    CASE frequency = "weekly" -> 52
      [] frequency = "fortnightly" -> 26
      [] frequency = "monthly" -> 12

add_period(start, frequency, periods) ==
    CASE frequency = "weekly" -> start + 7 * periods
      [] frequency = "fortnightly" -> start + 14 * periods
      [] frequency = "monthly" -> AddMonths(start, periods)

\* floor(log2(n / d)) for n >= d > 0
RECURSIVE Log2Floor(_, _)
Log2Floor(n, d) == IF n < 2 * d THEN 0 ELSE 1 + Log2Floor(n, 2 * d)

(***************************************************************************)
(* Python floats (IEEE-754 doubles) near amounts of whole cents            *)
(*                                                                         *)
(* The double x near n / 100 is kept exactly as [n, d, q] with             *)
(* 100 * x = n + d / 2^q: n the whole cents, d / 2^q the representation    *)
(* error, far below a cent.  DoubleOfCents is the double a literal or      *)
(* round(x, 2) gives, FloatAdd is Python's a + b, FloatGeq its a >= b.     *)
(***************************************************************************)
MantissaBits == 52

RECURSIVE Pow2Mod(_, _)
Pow2Mod(k, m) ==
    IF k = 0 THEN 1
    ELSE LET h == Pow2Mod(k \div 2, m)
         IN  (h * h * (IF k % 2 = 1 THEN 2 ELSE 1)) % m

RECURSIVE ShiftsToOne(_)
ShiftsToOne(n) == IF n >= 100 THEN 0 ELSE 1 + ShiftsToOne(2 * n)

\* floor(log2(n / 100)) for n > 0
ExponentOfCents(n) == IF n >= 100 THEN Log2Floor(n, 100) ELSE -ShiftsToOne(n)

\* n / 100 is a power of two
IsPowerOfTwoCents(n) ==
    IF n >= 100 THEN n = 100 * Pow(2, ExponentOfCents(n))
    ELSE n * Pow(2, -ExponentOfCents(n)) = 100

ScaleError(d, j) == IF d = 0 THEN 0 ELSE d * Pow(2, j)

\* the integer nearest to num / den, den > 0; of two equally near ones the
\* even one when base_odd is false and the odd one when it is true
NearestFrom(num, den, base_odd) ==
    LET fl == IF num >= 0 THEN num \div den ELSE -((-num + den - 1) \div den)
        rem == num - fl * den
    IN  IF 2 * rem < den THEN fl
        ELSE IF 2 * rem > den THEN fl + 1
        ELSE IF (fl % 2 = 1) = base_odd THEN fl ELSE fl + 1

\* the double nearest to (n + d / 2^q) / 100, ties to the even mantissa,
\* for n > 0: k is the number of fraction bits of the doubles of that size,
\* r the remainder of n * 2^k by 100, odd the parity of its quotient
RoundFrom(n, d, q, k, r, odd) ==
    [n |-> n,
     d |-> 100 * NearestFrom(
                     IF q >= k THEN r * Pow(2, q - k) + d ELSE r + ScaleError(d, k - q),
                     IF q >= k THEN 100 * Pow(2, q - k) ELSE 100,
                     odd)
           - r,
     q |-> k]

RoundAtBits(n, d, q, k) ==
    RoundFrom(n, d, q, k, ((n % 100) * Pow2Mod(k, 100)) % 100,
              ((n % 200) * Pow2Mod(k, 200)) % 200 >= 100)

RoundToDouble(n, d, q) ==
    RoundAtBits(n, d, q,
        MantissaBits - (IF IsPowerOfTwoCents(n) /\ d < 0 THEN ExponentOfCents(n) - 1
                        ELSE ExponentOfCents(n)))

FloatNeg(x) == [x EXCEPT !.n = -x.n, !.d = -x.d]

DoubleOfCents(n) ==
    IF n = 0 THEN [n |-> 0, d |-> 0, q |-> 0]
    ELSE IF n > 0 THEN RoundToDouble(n, 0, 0)
    ELSE FloatNeg(RoundToDouble(-n, 0, 0))

\* a + b: the exact sum, rounded; a difference of no whole cents is exact
FloatSum(n, d, q) ==
    IF n = 0 THEN [n |-> 0, d |-> d, q |-> q]
    ELSE IF n > 0 THEN RoundToDouble(n, d, q)
    ELSE FloatNeg(RoundToDouble(-n, -d, q))

FloatAdd(a, b) ==
    FloatSum(a.n + b.n,
             ScaleError(a.d, Max(a.q, b.q) - a.q) + ScaleError(b.d, Max(a.q, b.q) - b.q),
             Max(a.q, b.q))

FloatSub(a, b) == FloatAdd(a, FloatNeg(b))

FloatGeq(a, b) ==
    \/ a.n > b.n
    \/ /\ a.n = b.n
       /\ ScaleError(a.d, Max(a.q, b.q) - a.q) >= ScaleError(b.d, Max(a.q, b.q) - b.q)

\* the double nearest to (n + (num / den) / 2^q) / 100, for n > 0 and
\* den > 0: RoundFrom for an error that is a ratio
RoundRatioFrom(n, num, den, q, k, r, odd) ==
    [n |-> n,
     d |-> 100 * NearestFrom(
                     IF q >= k THEN r * Pow(2, q - k) * den + num
                     ELSE r * den + num * Pow(2, k - q),
                     IF q >= k THEN 100 * Pow(2, q - k) * den ELSE 100 * den,
                     odd)
           - r,
     q |-> k]

RoundRatioAtBits(n, num, den, q, k) ==
    RoundRatioFrom(n, num, den, q, k, ((n % 100) * Pow2Mod(k, 100)) % 100,
                   ((n % 200) * Pow2Mod(k, 200)) % 200 >= 100)

RoundRatioToDouble(n, num, den, q) ==
    RoundRatioAtBits(n, num, den, q,
        MantissaBits - (IF IsPowerOfTwoCents(n) /\ num < 0 THEN ExponentOfCents(n) - 1
                        ELSE ExponentOfCents(n)))

\* a / m for a whole number m that divides the hundredths of a
FloatQuotient(a, m) ==
    IF a.n = 0 THEN a ELSE RoundRatioToDouble(a.n \div m, a.d, m, a.q)

\* a * b when the product is whole hundredths; the product of the two
\* representation errors is left out, it is 2^-50 of either
FloatProduct(a, b) ==
    IF a.n = 0 \/ b.n = 0 THEN [n |-> 0, d |-> 0, q |-> 0]
    ELSE RoundRatioToDouble((a.n * b.n) \div 100,
             a.n * ScaleError(b.d, Max(a.q, b.q) - b.q)
                 + b.n * ScaleError(a.d, Max(a.q, b.q) - a.q),
             100, Max(a.q, b.q))

\* line 49: (1 + r) ** n raises OverflowError when the power reaches
\* 2^FloatMaxExp.  The test is exact when 1 + r is a power of two; for any
\* other rate the power overflows at some n between FloatMaxExp / (a + 1)
\* and FloatMaxExp / a, a = Log2Floor(1 + r), and no call of this model has
\* its n in that gap (a rate of 1/10 a period overflows from n = 7448 on).
pmt_raises(rate_num, rate_den, num_periods) ==
    /\ num_periods > 1
    /\ rate_num # 0
    /\ Log2Floor(rate_den + rate_num, rate_den) * num_periods >= FloatMaxExp

(***************************************************************************)
(* pmt: the level payment, in cents, for a balance of present_value cents  *)
(* at the per-period rate rate_num / rate_den                              *)
(***************************************************************************)
pmt(rate_num, rate_den, num_periods, present_value) ==
    LET g == GCD(rate_num, rate_den)
        rn == rate_num \div g
        rd == rate_den \div g
        P == Pow(rd + rn, num_periods)
        Q == Pow(rd, num_periods)
    IN  IF num_periods <= 0 THEN present_value
        ELSE IF rate_num = 0 THEN RoundHalfEven(present_value, num_periods)
        ELSE IF num_periods = 1
             THEN RoundHalfEven(present_value * (rd + rn), rd)
        ELSE RoundHalfEven(present_value * rn * P, rd * (P - Q))

(***************************************************************************)
(* sorted(xs, key=date): Python's stable sort, as an insertion sort        *)
(***************************************************************************)
\* InsertByDate that puts an entry before the entries of its own date
RECURSIVE InsertByDate_Unstable(_, _)
InsertByDate_Unstable(sorted, e) ==
    IF sorted = <<>> THEN <<e>>
    ELSE IF sorted[Len(sorted)][1] < e[1] THEN Append(sorted, e)
    ELSE Append(InsertByDate_Unstable(SubSeq(sorted, 1, Len(sorted) - 1), e),
                sorted[Len(sorted)])

RECURSIVE InsertByDate(_, _)
InsertByDate(sorted, e) ==
    IF sorted = <<>> THEN <<e>>
    ELSE IF sorted[Len(sorted)][1] <= e[1] THEN Append(sorted, e)
    ELSE Append(InsertByDate(SubSeq(sorted, 1, Len(sorted) - 1), e),
                sorted[Len(sorted)])

RECURSIVE SortByDate(_)
SortByDate(xs) ==
    IF xs = <<>> THEN <<>>
    ELSE InsertByDate(SortByDate(SubSeq(xs, 1, Len(xs) - 1)), xs[Len(xs)])

\* the scan both timelines share: the value of the last entry at or before
\* the date, walking the sorted list and stopping at the first later entry
RECURSIVE ScanTimeline(_, _, _, _)
ScanTimeline(sorted, k, payment_date, current) ==
    IF k > Len(sorted) THEN current
    ELSE IF payment_date >= sorted[k][1]
         THEN ScanTimeline(sorted, k + 1, payment_date, sorted[k][2])
    ELSE current

get_rate_at_date(payment_date, base_rate, rate_changes) ==
    IF rate_changes = <<>> THEN base_rate
    ELSE ScanTimeline(
             SortByDate([k \in 1..Len(rate_changes) |->
                 <<rate_changes[k].effective_date, rate_changes[k].annual_rate>>]),
             1, payment_date, base_rate)

(***************************************************************************)
(* calculate_period_interest: <<interest, end-of-period rate>>             *)
(***************************************************************************)
RECURSIVE SortDates(_)
SortDates(S) ==
    IF S = {} THEN <<>>
    ELSE LET d == CHOOSE x \in S : \A z \in S : x <= z
         IN  <<d>> \o SortDates(S \ {d})

\* the sum, over the sub-intervals that start at interval_start and at each
\* boundary from index k on, of balance * sub_rate * days (un-divided)
\* SplitInterest that takes each sub-interval's rate on its last day's
\* boundary instead of on its start
RECURSIVE SplitInterest_RateAtEnd(_, _, _, _, _, _, _)
SplitInterest_RateAtEnd(balance, interval_start, boundaries, k, payment_date, base_rate, rate_changes) ==
    IF k > Len(boundaries)
    THEN balance * get_rate_at_date(payment_date, base_rate, rate_changes)
                 * (payment_date - interval_start)
    ELSE balance * get_rate_at_date(boundaries[k], base_rate, rate_changes)
                 * (boundaries[k] - interval_start)
         + SplitInterest_RateAtEnd(balance, boundaries[k], boundaries, k + 1,
                                   payment_date, base_rate, rate_changes)

RECURSIVE SplitInterest(_, _, _, _, _, _, _)
SplitInterest(balance, interval_start, boundaries, k, payment_date, base_rate, rate_changes) ==
    LET sub_rate == get_rate_at_date(interval_start, base_rate, rate_changes)
    IN  IF k > Len(boundaries)
        THEN balance * sub_rate * (payment_date - interval_start)
        ELSE balance * sub_rate * (boundaries[k] - interval_start)
             + SplitInterest(balance, boundaries[k], boundaries, k + 1,
                             payment_date, base_rate, rate_changes)

\* calculate_period_interest that also takes the changes dated on the two
\* ends of the period for boundaries
calculate_period_interest_Inclusive(balance, prev_date, payment_date, base_rate, rate_changes, frequency) ==
    LET ppy == periods_per_year(frequency)
        end_rate == get_rate_at_date(payment_date, base_rate, rate_changes)
        boundaries == SortDates({rate_changes[k].effective_date :
                          k \in {j \in 1..Len(rate_changes) :
                              prev_date <= rate_changes[j].effective_date
                              /\ rate_changes[j].effective_date <= payment_date}})
    IN  IF rate_changes = <<>> \/ boundaries = <<>>
        THEN <<RoundHalfEven(balance * end_rate, RateDen * ppy), end_rate>>
        ELSE <<RoundHalfEven(
                   SplitInterest(balance, prev_date, boundaries, 1, payment_date,
                                 base_rate, rate_changes),
                   RateDen * 365),
               end_rate>>

calculate_period_interest(balance, prev_date, payment_date, base_rate, rate_changes, frequency) ==
    LET ppy == periods_per_year(frequency)
        end_rate == get_rate_at_date(payment_date, base_rate, rate_changes)
        \* boundaries.sort(): duplicates stay in the list; a repeated boundary
        \* adds a sub-interval of 0 days, so the set of dates gives the same sum
        boundaries == SortDates({rate_changes[k].effective_date :
                          k \in {j \in 1..Len(rate_changes) :
                              prev_date < rate_changes[j].effective_date
                              /\ rate_changes[j].effective_date < payment_date}})
    IN  IF rate_changes = <<>> \/ boundaries = <<>>
        THEN <<RoundHalfEven(balance * end_rate, RateDen * ppy), end_rate>>
        ELSE <<RoundHalfEven(
                   SplitInterest(balance, prev_date, boundaries, 1, payment_date,
                                 base_rate, rate_changes),
                   RateDen * 365),
               end_rate>>

(***************************************************************************)
(* get_repayment_at_date and get_extras_for_period                         *)
(***************************************************************************)
\* Overrides with the repayment changes merged before the adjusted
\* repayments of the rate changes
Overrides_RepaymentChangesFirst(rate_changes, repayment_changes) ==
    LET adj == SelectSeq(rate_changes, LAMBDA rc : ~IsNone(rc.adjusted_repayment))
    IN  [k \in 1..Len(repayment_changes) |->
               <<repayment_changes[k].effective_date, repayment_changes[k].amount>>]
        \o [k \in 1..Len(adj) |-> <<adj[k].effective_date, adj[k].adjusted_repayment[1]>>]

Overrides(rate_changes, repayment_changes) ==
    LET adj == SelectSeq(rate_changes, LAMBDA rc : ~IsNone(rc.adjusted_repayment))
    IN  [k \in 1..Len(adj) |-> <<adj[k].effective_date, adj[k].adjusted_repayment[1]>>]
        \o [k \in 1..Len(repayment_changes) |->
               <<repayment_changes[k].effective_date, repayment_changes[k].amount>>]

get_repayment_at_date(payment_date, base_repayment, rate_changes, repayment_changes) ==
    IF IsNone(base_repayment) THEN base_repayment
    ELSE LET overrides == Overrides(rate_changes, repayment_changes)
         IN  IF overrides = <<>> THEN base_repayment
             ELSE Some(ScanTimeline(SortByDate(overrides), 1, payment_date,
                                    base_repayment[1]))

\* SumExtras whose window includes its start: an extra paid on a payment
\* date is counted in the period that ends there and in the next
RECURSIVE SumExtras_InclusiveStart(_, _, _, _)
SumExtras_InclusiveStart(extra_repayments, k, period_start, period_end) ==
    IF k > Len(extra_repayments) THEN 0
    ELSE (IF period_start <= extra_repayments[k].payment_date
             /\ extra_repayments[k].payment_date <= period_end
          THEN extra_repayments[k].amount ELSE 0)
         + SumExtras_InclusiveStart(extra_repayments, k + 1, period_start, period_end)

RECURSIVE SumExtras(_, _, _, _)
SumExtras(extra_repayments, k, period_start, period_end) ==
    IF k > Len(extra_repayments) THEN 0
    ELSE (IF period_start < extra_repayments[k].payment_date
             /\ extra_repayments[k].payment_date <= period_end
          THEN extra_repayments[k].amount ELSE 0)
         + SumExtras(extra_repayments, k + 1, period_start, period_end)

\* get_extras_for_period without the upper end of the window: an extra
\* dated after the period is counted in it
get_extras_for_period_Unbounded(period_start, period_end, extra_repayments) ==
    SumExtras(extra_repayments, 1, period_start,
              period_end + 366 * MAX_ITERATIONS)

get_extras_for_period(period_start, period_end, extra_repayments) ==
    SumExtras(extra_repayments, 1, period_start, period_end)

(***************************************************************************)
(* calculate_schedule                                                      *)
(*                                                                         *)
(* The for-loop runs on a record of its local variables: Iteration is one  *)
(* pass of the body, RunLoop the passes i .. i + n - 1 (split in halves so *)
(* that 2000 passes nest 11 deep), and broke records that a break ended    *)
(* the loop, which is what the for-else tests.                             *)
(***************************************************************************)
ScheduleRow(number, date, opening_balance, principal, interest, rate, calculated_pmt, additional, extra, closing_balance) ==
    [number |-> number, date |-> date, opening_balance |-> opening_balance,
     principal |-> principal, interest |-> interest, rate |-> rate,
     calculated_pmt |-> calculated_pmt, additional |-> additional,
     extra |-> extra, closing_balance |-> closing_balance]

\* The comparisons of lines 290, 293 and 302 are made on floats.  Their
\* operands are amounts of whole cents, so the floats decide as the cents
\* do unless the cents are equal; then the doubles are compared.
\* line 290: principal_from_payment + extra > balance
TotalExceeds(principal_from_payment, extra, balance) ==
    IF principal_from_payment + extra # balance
    THEN principal_from_payment + extra > balance
    ELSE ~FloatGeq(DoubleOfCents(balance),
                   FloatAdd(DoubleOfCents(principal_from_payment), DoubleOfCents(extra)))

\* line 293: extra >= overshoot, overshoot = total_principal - balance
ExtraCovers(principal_from_payment, extra, balance) ==
    IF principal_from_payment # balance
    THEN extra >= principal_from_payment + extra - balance
    ELSE FloatGeq(DoubleOfCents(extra),
                  FloatSub(FloatAdd(DoubleOfCents(principal_from_payment), DoubleOfCents(extra)),
                           DoubleOfCents(balance)))

\* line 302: principal_from_payment + extra >= balance
TotalReaches(principal_from_payment, extra, balance) ==
    IF principal_from_payment + extra # balance
    THEN principal_from_payment + extra > balance
    ELSE FloatGeq(FloatAdd(DoubleOfCents(principal_from_payment), DoubleOfCents(extra)),
                  DoubleOfCents(balance))

\* CapOverpayment with lines 290-300 left out
CapOverpayment_NoCap(balance, interest, actual_payment, principal_from_payment, additional, extra, calculated_payment, has_repayment) ==
    <<actual_payment, principal_from_payment, additional, extra,
      principal_from_payment + extra>>

\* CapOverpayment that clamps the total and leaves the extra as given when
\* the extra could absorb the overshoot
CapOverpayment_ExtraKept(balance, interest, actual_payment, principal_from_payment, additional, extra, calculated_payment, has_repayment) ==
    LET capped_payment == interest + balance - extra
    IN  IF TotalExceeds(principal_from_payment, extra, balance)
        THEN IF extra > 0 /\ ExtraCovers(principal_from_payment, extra, balance)
             THEN <<actual_payment, principal_from_payment, additional, extra, balance>>
             ELSE <<capped_payment, capped_payment - interest,
                    IF has_repayment THEN capped_payment - calculated_payment ELSE 0,
                    extra, balance>>
        ELSE <<actual_payment, principal_from_payment, additional, extra,
               principal_from_payment + extra>>

\* the cap on overpayment: <<actual_payment, principal_from_payment,
\* additional, extra, total_principal>> after lines 290-300
CapOverpayment(balance, interest, actual_payment, principal_from_payment, additional, extra, calculated_payment, has_repayment) ==
    LET total_principal == principal_from_payment + extra
        overshoot == total_principal - balance
        capped_payment == interest + balance - extra
    IN  IF TotalExceeds(principal_from_payment, extra, balance)
        THEN IF extra > 0 /\ ExtraCovers(principal_from_payment, extra, balance)
             THEN <<actual_payment, principal_from_payment, additional,
                    extra - overshoot, balance>>
             ELSE <<capped_payment, capped_payment - interest,
                    IF has_repayment THEN capped_payment - calculated_payment ELSE 0,
                    extra, balance>>
        ELSE <<actual_payment, principal_from_payment, additional, extra,
               total_principal>>

\* lines 302-328: the cap on calculated_payment in a final period driven by
\* a scheduled repayment, the new balance, the row and the running totals
EmitRow(st, payment_date, interest, current_rate, calculated_payment, has_repayment, cap) ==
    LET balance == st.balance
        final == has_repayment /\ TotalReaches(cap[2], cap[4], balance)
        new_balance ==
            IF balance - cap[5] < ZERO_THRESHOLD THEN 0 ELSE balance - cap[5]
    IN  [i |-> st.i + 1,
         balance |-> new_balance,
         rows |-> Append(st.rows,
                     ScheduleRow(st.i, payment_date, balance, cap[2], interest,
                         current_rate,
                         IF final THEN interest + (balance - cap[4])
                         ELSE calculated_payment,
                         IF final THEN cap[1] - (interest + (balance - cap[4]))
                         ELSE cap[3],
                         cap[4], new_balance)),
         total_interest |-> st.total_interest + interest,
         total_paid |-> st.total_paid + cap[1] + cap[4],
         broke |-> new_balance <= 0,
         raised |-> FALSE]

\* ApplyPayment with neither the cap of lines 290-300 nor the clamp of
\* lines 309-310: the balance is reduced by whatever was paid
ApplyPayment_Uncapped(st, payment_date, interest, current_rate, actual_payment, additional, calculated_payment, has_repayment, extra) ==
    [i |-> st.i + 1,
     balance |-> st.balance - (actual_payment - interest + extra),
     rows |-> Append(st.rows,
                 ScheduleRow(st.i, payment_date, st.balance,
                     actual_payment - interest, interest, current_rate,
                     calculated_payment, additional, extra,
                     st.balance - (actual_payment - interest + extra))),
     total_interest |-> st.total_interest + interest,
     total_paid |-> st.total_paid + actual_payment + extra,
     broke |-> st.balance - (actual_payment - interest + extra) <= 0,
     raised |-> FALSE]

\* lines 287-300, with the payment, additional and calculated payment that
\* lines 273-282 chose
ApplyPayment(st, payment_date, interest, current_rate, actual_payment, additional, calculated_payment, has_repayment, extra) ==
    EmitRow(st, payment_date, interest, current_rate, calculated_payment,
            has_repayment,
            CapOverpayment(st.balance, interest, actual_payment,
                           actual_payment - interest, additional, extra,
                           calculated_payment, has_repayment))

\* ChoosePayment whose first window starts on the start date instead of
\* the day before it: an extra paid on the start date is lost
ChoosePayment_LateWindow(p, st, payment_date, prev_payment_date, interest, current_rate, pmt_value, period_repayment) ==
    LET has_repayment == ~IsNone(period_repayment)
        suppressed ==
            has_repayment /\ Abs(period_repayment[1] - pmt_value) < DeadBand
    IN  ApplyPayment(st, payment_date, interest, current_rate,
            IF has_repayment THEN period_repayment[1] ELSE pmt_value,
            IF has_repayment /\ ~suppressed
            THEN period_repayment[1] - pmt_value ELSE 0,
            IF suppressed THEN period_repayment[1] ELSE pmt_value,
            has_repayment,
            get_extras_for_period(prev_payment_date, payment_date,
                                  p.extra_repayments))

\* lines 273-285: the scheduled repayment against the calculated payment,
\* with differences under the dead-band suppressed, and the period's extras
ChoosePayment(p, st, payment_date, prev_payment_date, interest, current_rate, pmt_value, period_repayment) ==
    LET has_repayment == ~IsNone(period_repayment)
        suppressed ==
            has_repayment /\ Abs(period_repayment[1] - pmt_value) < DeadBand
    IN  ApplyPayment(st, payment_date, interest, current_rate,
            IF has_repayment THEN period_repayment[1] ELSE pmt_value,
            IF has_repayment /\ ~suppressed
            THEN period_repayment[1] - pmt_value ELSE 0,
            IF suppressed THEN period_repayment[1] ELSE pmt_value,
            has_repayment,
            get_extras_for_period(
                IF st.i > 1 THEN prev_payment_date ELSE prev_payment_date - 1,
                payment_date, p.extra_repayments))

\* lines 265-271, given the period's <<interest, rate>>
WithInterest(p, st, payment_date, prev_payment_date, pi) ==
    IF pmt_raises(pi[2], RateDen * periods_per_year(p.frequency),
                  Max(p.loan_term - (st.i - 1), 1))
    THEN [st EXCEPT !.broke = TRUE, !.raised = TRUE]
    ELSE
    ChoosePayment(p, st, payment_date, prev_payment_date, pi[1], pi[2],
        pmt(pi[2], RateDen * periods_per_year(p.frequency),
            Max(p.loan_term - (st.i - 1), 1), st.balance),
        get_repayment_at_date(payment_date, p.fixed_repayment, p.rate_changes,
                              p.repayment_changes))

\* lines 262-264, given the period's dates
Period(p, st, payment_date, prev_payment_date) ==
    WithInterest(p, st, payment_date, prev_payment_date,
        calculate_period_interest(st.balance, prev_payment_date, payment_date,
                                  p.annual_rate, p.rate_changes, p.frequency))

\* one pass of the loop body, lines 256-331
Iteration(p, st) ==
    IF st.balance < ZERO_THRESHOLD THEN [st EXCEPT !.broke = TRUE]
    ELSE Period(p, st, add_period(p.start_date, p.frequency, st.i),
                IF st.i > 1 THEN add_period(p.start_date, p.frequency, st.i - 1)
                ELSE p.start_date)

RECURSIVE RunLoop(_, _, _)
RunLoop(p, st, n) ==
    IF st.broke \/ n = 0 THEN st
    ELSE IF n = 1 THEN Iteration(p, st)
    ELSE RunLoop(p, RunLoop(p, st, n \div 2), n - (n \div 2))

\* the for-else: the warning set when the loop ran out without a break
CapWarning(principal, annual_rate, frequency, fixed_repayment) ==
    IF IsNone(fixed_repayment) THEN NoWarning
    \* fixed_repayment <= principal * annual_rate / ppy, in mills * RateDen * ppy
    ELSE IF fixed_repayment[1] * MillsPerCent * RateDen * periods_per_year(frequency)
            <= principal * annual_rate
         THEN WarnInterest
    ELSE WarnExceeded

\* what the model keeps of a call that pmt's OverflowError ended: the call
\* returns nothing
OverflowRaised ==
    [rows |-> <<>>, total_interest |-> 0, total_paid |-> 0,
     total_repayments |-> 0, payoff_date |-> NoneVal, warning |-> NoWarning,
     raised |-> TRUE]

\* ScheduleResult that counts the loop index instead of the rows
ScheduleResult_LoopIndex(st, cap_warning) ==
    [rows |-> st.rows,
     total_interest |-> st.total_interest,
     total_paid |-> st.total_paid,
     total_repayments |-> st.i,
     payoff_date |-> IF st.rows = <<>> THEN NoneVal
                     ELSE Some(st.rows[Len(st.rows)].date),
     warning |-> IF st.broke THEN NoWarning ELSE cap_warning,
     raised |-> FALSE]

\* lines 342-348: the result, from the loop's variables and the warning that
\* the for-else would set
ScheduleResult(st, cap_warning) ==
    IF st.raised THEN OverflowRaised
    ELSE
    [rows |-> st.rows,
     total_interest |-> st.total_interest,
     total_paid |-> st.total_paid,
     total_repayments |-> Len(st.rows),
     payoff_date |-> IF st.rows = <<>> THEN NoneVal
                     ELSE Some(st.rows[Len(st.rows)].date),
     warning |-> IF st.broke THEN NoWarning ELSE cap_warning,
     raised |-> FALSE]

calculate_schedule(principal, annual_rate, frequency, start_date, loan_term, fixed_repayment, rate_changes, extra_repayments, paid_set, repayment_changes) ==
    ScheduleResult(
        RunLoop([frequency |-> frequency, start_date |-> start_date,
                 annual_rate |-> annual_rate, loan_term |-> loan_term,
                 fixed_repayment |-> fixed_repayment,
                 rate_changes |-> rate_changes,
                 extra_repayments |-> extra_repayments,
                 repayment_changes |-> repayment_changes],
                [i |-> 1, balance |-> RoundHalfEven(principal, MillsPerCent),
                 rows |-> <<>>, total_interest |-> 0, total_paid |-> 0,
                 broke |-> FALSE, raised |-> FALSE],
                MAX_ITERATIONS),
        CapWarning(principal, annual_rate, frequency, fixed_repayment))

(***************************************************************************)
(* find_repayment_for_target_date: one pass of the bisection loop          *)
(*                                                                         *)
(* low and high are kept in units of 1 / SearchUnit(frequency) cents, the  *)
(* denominator of principal * annual_rate / ppy, so that                   *)
(* low = interest_floor + 0.01 is exact.                                   *)
(***************************************************************************)
SearchUnit(frequency) == MillsPerCent * RateDen * periods_per_year(frequency)

InitialLow(principal, annual_rate, frequency) ==
    principal * annual_rate + SearchUnit(frequency)

InitialHigh(principal, frequency) ==
    principal * 2 * RateDen * periods_per_year(frequency)

\* low and high as the doubles of lines 381-382 and 426-428, for bounds of
\* whole cents.  low is interest_floor + 0.01 or mid + 0.01, high is
\* principal * 2 or mid - 0.01; a bound that was replaced differs from the
\* initial one.  The initial bounds have this form when the principal is
\* whole cents and the rate per period whole hundredths.
HasFloatForm(principal, annual_rate, frequency) ==
    /\ principal % MillsPerCent = 0
    /\ (annual_rate * 100) % (RateDen * periods_per_year(frequency)) = 0

InterestFloorFloat(principal, annual_rate, frequency) ==
    FloatProduct(DoubleOfCents(principal \div MillsPerCent),
                 FloatQuotient(DoubleOfCents((annual_rate * 100) \div RateDen),
                               periods_per_year(frequency)))

LowAsFloat(low, principal, annual_rate, frequency) ==
    IF low = InitialLow(principal, annual_rate, frequency)
    THEN FloatAdd(InterestFloorFloat(principal, annual_rate, frequency),
                  DoubleOfCents(1))
    ELSE FloatAdd(DoubleOfCents((low \div SearchUnit(frequency)) - 1), DoubleOfCents(1))

HighAsFloat(high, principal, frequency) ==
    IF high = InitialHigh(principal, frequency)
    THEN DoubleOfCents(high \div SearchUnit(frequency))
    ELSE FloatSub(DoubleOfCents((high \div SearchUnit(frequency)) + 1), DoubleOfCents(1))

\* both bounds are whole cents with a float form
BoundsAsFloats(low, high, principal, annual_rate, frequency) ==
    /\ low % SearchUnit(frequency) = 0
    /\ high % SearchUnit(frequency) = 0
    /\ \/ HasFloatForm(principal, annual_rate, frequency)
       \/ /\ low # InitialLow(principal, annual_rate, frequency)
          /\ high # InitialHigh(principal, frequency)

\* round(x / 2, 2) for the float sum x of an odd number of cents: the half
\* cent goes the way of the sum's representation error
HalfOfOddSum(x) ==
    IF x.d > 0 THEN (x.n + 1) \div 2
    ELSE IF x.d < 0 THEN (x.n - 1) \div 2
    ELSE RoundHalfEven(x.n, 2)

\* line 385: mid = round((low + high) / 2, 2), in cents
Midpoint(low, high, principal, annual_rate, frequency) ==
    IF /\ (low + high) % (2 * SearchUnit(frequency)) = SearchUnit(frequency)
       /\ BoundsAsFloats(low, high, principal, annual_rate, frequency)
    THEN HalfOfOddSum(FloatAdd(LowAsFloat(low, principal, annual_rate, frequency),
                               HighAsFloat(high, principal, frequency)))
    ELSE RoundHalfEven(low + high, 2 * SearchUnit(frequency))

\* line 429: high < low, decided on the doubles when the bounds are the
\* same number of cents
HighBelowLow(low, high, principal, annual_rate, frequency) ==
    IF low # high THEN high < low
    ELSE /\ BoundsAsFloats(low, high, principal, annual_rate, frequency)
         /\ ~FloatGeq(HighAsFloat(high, principal, frequency),
                      LowAsFloat(low, principal, annual_rate, frequency))

\* lines 387-390: the search varies an entry of rate_changes
AdjustsRateChange(rate_changes, adjust_rate_idx) ==
    ~IsNone(adjust_rate_idx) /\ rate_changes # <<>>

\* TrialRates that writes mid into every entry of the copy
TrialRates_EveryEntry(rate_changes, adjust_rate_idx, mid) ==
    IF AdjustsRateChange(rate_changes, adjust_rate_idx)
    THEN [k \in 1..Len(rate_changes) |->
             [rate_changes[k] EXCEPT !.adjusted_repayment = Some(mid)]]
    ELSE rate_changes

\* lines 387-398 and 410: the rate_changes a trial passes to
\* calculate_schedule, trial_rates (a copy of every entry, mid written into
\* the adjusted_repayment of entry adjust_rate_idx, 0-based) or the
\* caller's list
TrialRates(rate_changes, adjust_rate_idx, mid) ==
    IF AdjustsRateChange(rate_changes, adjust_rate_idx)
    THEN [rate_changes EXCEPT
             ![adjust_rate_idx[1] + 1].adjusted_repayment = Some(mid)]
    ELSE rate_changes

\* lines 397 and 409: the fixed_repayment a trial passes to
\* calculate_schedule
TrialRepayment(fixed_repayment, rate_changes, adjust_rate_idx, mid) ==
    IF AdjustsRateChange(rate_changes, adjust_rate_idx)
    THEN fixed_repayment ELSE Some(mid)

\* the schedule of one trial: mid replaces fixed_repayment, or the
\* adjusted_repayment of rate_changes[adjust_rate_idx] on a copy
TrialSchedule(principal, annual_rate, frequency, start_date, loan_term, mid, rate_changes, extra_repayments, fixed_repayment, adjust_rate_idx, repayment_changes) ==
    calculate_schedule(principal, annual_rate, frequency, start_date, loan_term,
        TrialRepayment(fixed_repayment, rate_changes, adjust_rate_idx, mid),
        TrialRates(rate_changes, adjust_rate_idx, mid),
        extra_repayments, {}, repayment_changes)

\* payoff <= target_date, for a trial that has rows
PaysOffBy(sched, target_date) == sched.payoff_date[1] <= target_date

BestOf(mid, sched) ==
    Some([required_repayment |-> mid,
          total_interest |-> sched.total_interest,
          total_paid |-> sched.total_paid,
          num_repayments |-> sched.total_repayments,
          payoff_date |-> sched.payoff_date[1]])

(***************************************************************************)
(* _build_schedule (routers/schedule.py): the response for one loan        *)
(***************************************************************************)
NoWhatIf == [fixed_repayment |-> NoneVal, rate_changes |-> NoneVal,
             extra_repayments |-> NoneVal]

RECURSIVE FirstUnpaid(_, _, _)
FirstUnpaid(rows, k, paid) ==
    IF k > Len(rows) THEN 0
    ELSE IF rows[k].number \notin paid THEN k
    ELSE FirstUnpaid(rows, k + 1, paid)

\* progress_pct in tenths of a percent: round(made / total * 100, 1)
ProgressPct(payments_made, total_repayments) ==
    IF total_repayments > 0
    THEN RoundHalfEven(payments_made * 1000, total_repayments)
    ELSE 0

\* lines 58-105: the rows tagged is_paid and the summary
ScheduleResponse(res, db_paid, next) ==
    [summary |->
         [total_repayments |-> res.total_repayments,
          total_interest |-> res.total_interest,
          total_paid |-> res.total_paid,
          payoff_date |-> res.payoff_date,
          remaining_balance |->
              IF (next = 0 \/ res.rows[next].opening_balance = 0)
                 /\ res.rows # <<>>
              THEN res.rows[Len(res.rows)].closing_balance
              ELSE IF next = 0 THEN 0 ELSE res.rows[next].opening_balance,
          payments_made |-> Cardinality(db_paid),
          progress_pct |-> ProgressPct(Cardinality(db_paid), res.total_repayments),
          next_payment |->
              IF next = 0 THEN NoneVal
              ELSE Some([number |-> res.rows[next].number,
                         date |-> res.rows[next].date,
                         amount |-> res.rows[next].principal
                                    + res.rows[next].interest
                                    + res.rows[next].additional]),
          warning |-> res.warning],
     rows |-> [k \in 1..Len(res.rows) |->
                  [row |-> res.rows[k],
                   is_paid |-> res.rows[k].number \in db_paid]]]

\* the endpoints catch nothing: an OverflowError of the calculator is the
\* framework's 500 response
ServerError == [summary |-> "Internal Server Error", rows |-> <<>>]

PaidResponse(res, db_paid) ==
    IF res.raised THEN ServerError
    ELSE ScheduleResponse(res, db_paid, FirstUnpaid(res.rows, 1, db_paid))

\* lines 19-56: what-if lists replace the stored ones (their entries carry
\* no adjusted_repayment), a what-if fixed_repayment replaces the loan's
_build_schedule(loan, db_rates, db_extras, db_repayment_changes, db_paid, whatif) ==
    PaidResponse(
        calculate_schedule(loan.principal, loan.annual_rate, loan.frequency,
            loan.start_date, loan.loan_term,
            IF ~IsNone(whatif.fixed_repayment) THEN whatif.fixed_repayment
            ELSE loan.fixed_repayment,
            IF ~IsNone(whatif.rate_changes)
            THEN [k \in 1..Len(whatif.rate_changes[1]) |->
                     [whatif.rate_changes[1][k] EXCEPT !.adjusted_repayment = NoneVal]]
            ELSE db_rates,
            IF ~IsNone(whatif.extra_repayments) THEN whatif.extra_repayments[1]
            ELSE db_extras,
            db_paid, db_repayment_changes),
        db_paid)

(***************************************************************************)
(* State                                                                   *)
(*   the loan and its dated entries (the arguments of a calculator call,   *)
(*   the rows of one loan in the database);                                *)
(*   result: what calculate_schedule returned;                             *)
(*   target_date .. outcome: find_repayment_for_target_date's arguments,   *)
(*   locals and return value;                                              *)
(*   paid_repayments, request, response: the paid_repayments table (a bag  *)
(*   of repayment numbers, one copy for each record) and the last          *)
(*   schedule request and its response.                                    *)
(***************************************************************************)
VARIABLES principal, annual_rate, frequency, start_date, loan_term,
          fixed_repayment, rate_changes, extra_repayments, repayment_changes,
          result, pc,
          target_date, adjust_rate_idx, low, high, best, steps, outcome,
          paid_repayments, request, response

args == <<principal, annual_rate, frequency, start_date, loan_term,
          fixed_repayment, rate_changes, extra_repayments, repayment_changes>>
solver == <<target_date, adjust_rate_idx, low, high, best, steps, outcome>>
api == <<paid_repayments, request, response>>

\* routers/schedule.py l.38-39: the numbers that have a record
paid_set == BagToSet(paid_repayments)
vars == <<args, result, pc, solver, api>>

NoResult == [rows |-> <<>>, total_interest |-> 0, total_paid |-> 0,
             total_repayments |-> 0, payoff_date |-> NoneVal, warning |-> NoWarning,
             raised |-> FALSE]
NoResponse == <<>>
ErrorOutcome == "Cannot pay off by target date. Target may be too soon."

loan == [principal |-> principal, annual_rate |-> annual_rate,
         frequency |-> frequency, start_date |-> start_date,
         loan_term |-> loan_term, fixed_repayment |-> fixed_repayment]

(***************************************************************************)
(* Bounds and the inputs the calls are made with                           *)
(***************************************************************************)
\* loan_term ranges over 1..MaxTerm
MaxTerm == 3
\* a loan has at most MaxEvents dated entries (rate changes, extra
\* repayments and repayment changes together)
MaxEvents == 2
\* repayment numbers 1..MaxPaidNumber are marked and unmarked
MaxPaidNumber == 2

Optional(S) == {NoneVal} \cup {Some(v) : v \in S}

Frequencies == {"weekly", "fortnightly", "monthly"}
\* 31 January: monthly payment dates are clamped to the month's length
StartDates == {ToOrdinal(2026, 1, 31)}
\* $10.00 and $10.006
Principals == {10000, 10006}
\* a per-period rate of 0 or 1/10 (32-bit arithmetic holds the powers of
\* 11/10 that pmt takes)
Rates(f) == {0, periods_per_year(f)}
\* scheduled repayments that cover a period's interest on these principals
Repayments == {300, 1500}

\* Rate changes on a day inside period 1, on the first payment date and on
\* a day inside period 2; two of them carry an adjusted repayment
RateChangeEntries(f, s) ==
    [effective_date : {s + 3, add_period(s, f, 1), add_period(s, f, 1) + 3},
     annual_rate : Rates(f),
     adjusted_repayment : {NoneVal}]
    \cup {[effective_date |-> add_period(s, f, 1),
           annual_rate |-> periods_per_year(f),
           adjusted_repayment |-> Some(300)],
          [effective_date |-> add_period(s, f, 1) + 3,
           annual_rate |-> 0,
           adjusted_repayment |-> Some(300)]}
\* extras on the day before the start date, on the start date and on a day
\* inside period 2
ExtraEntries(f, s) ==
    {[payment_date |-> s - 1, amount |-> 5000],
     [payment_date |-> s, amount |-> 5000],
     [payment_date |-> add_period(s, f, 1) + 3, amount |-> 50],
     [payment_date |-> add_period(s, f, 1) + 3, amount |-> 5000]}
\* repayment changes on a day inside period 1 and on a day inside period 2
RepaymentChangeEntries(f, s) ==
    {[effective_date |-> s + 3, amount |-> 1500],
     [effective_date |-> add_period(s, f, 1) + 3, amount |-> 300],
     [effective_date |-> add_period(s, f, 1) + 3, amount |-> 1500]}

\* <<rate_changes, extra_repayments, repayment_changes>> of at most n entries
EventLists(f, s, n) ==
    UNION {([1..a -> RateChangeEntries(f, s)]
            \X [1..b -> ExtraEntries(f, s)])
            \X [1..(k - a - b) -> RepaymentChangeEntries(f, s)] :
           <<a, b, k>> \in {t \in (0..n) \X (0..n) \X (0..n) : t[1] + t[2] <= t[3]}}

InitLoan ==
    /\ frequency \in Frequencies
    /\ start_date \in StartDates
    /\ principal \in Principals
    /\ annual_rate \in Rates(frequency)
    /\ loan_term \in 1..MaxTerm

InitEvents(n) ==
    \E ev \in EventLists(frequency, start_date, n) :
        /\ rate_changes = ev[1][1]
        /\ extra_repayments = ev[1][2]
        /\ repayment_changes = ev[2]

\* Calls whose schedules run to the iteration cap, or whose repayment is
\* below the interest for a while.  They are single cases, not a grid: the
\* balance of a loan that is never paid off must stay constant or shrink to
\* stay within 32 bits over 2000 periods.
SpecialLoans ==
    LET s == ToOrdinal(2026, 1, 31)
        base == [frequency |-> "weekly", start_date |-> s, principal |-> 10000,
                 annual_rate |-> 0, loan_term |-> 3, fixed_repayment |-> NoneVal,
                 rate_changes |-> <<>>, extra_repayments |-> <<>>,
                 repayment_changes |-> <<>>]
    IN  { \* fixed repayment equal to the interest: the balance never moves
          [base EXCEPT !.annual_rate = 52, !.fixed_repayment = Some(100)],
          \* no interest, one cent a week on $30
          [base EXCEPT !.principal = 30000, !.fixed_repayment = Some(1)],
          \* floating repayment over a term longer than the cap
          [base EXCEPT !.principal = 30000, !.loan_term = 3001],
          \* the repayment of period 1 is below its interest
          [base EXCEPT !.annual_rate = 52, !.fixed_repayment = Some(50),
                       !.extra_repayments = <<[payment_date |-> s + 3, amount |-> 1020]>>,
                       !.repayment_changes = <<[effective_date |-> s + 10, amount |-> 1500]>>],
          \* changes dated inside period 3
          [base EXCEPT !.annual_rate = 52, !.loan_term = 6,
                       !.rate_changes = <<[effective_date |-> s + 17, annual_rate |-> 0,
                                           adjusted_repayment |-> Some(300)]>>,
                       !.extra_repayments = <<[payment_date |-> s + 16, amount |-> 50]>>,
                       !.repayment_changes = <<[effective_date |-> s + 18, amount |-> 200]>>],
          \* a rate of 1 a period over 1024 periods: pmt computes 2.0 ** 1024
          [base EXCEPT !.annual_rate = RateDen * 52, !.loan_term = FloatMaxExp],
          \* a principal that rounds to no cents at all
          [base EXCEPT !.principal = 4],
          \* two rate changes dated inside period 1, given latest first
          [base EXCEPT !.annual_rate = 52,
                       !.rate_changes = <<[effective_date |-> s + 5, annual_rate |-> 104,
                                           adjusted_repayment |-> NoneVal],
                                          [effective_date |-> s + 2, annual_rate |-> 0,
                                           adjusted_repayment |-> NoneVal]>>],
          \* $100.75 at 20% a year, one fortnight: the interest is 77.5 cents
          \* and the payment 10152.5 cents, both before rounding
          [base EXCEPT !.frequency = "fortnightly", !.principal = 100750,
                       !.annual_rate = 2, !.loan_term = 1],
          \* extras on the day before the start date, on the start date, on
          \* the first payment date and on the day after it
          [base EXCEPT !.extra_repayments = <<[payment_date |-> s + 8, amount |-> 7],
                                              [payment_date |-> s + 7, amount |-> 50],
                                              [payment_date |-> s - 1, amount |-> 30],
                                              [payment_date |-> s, amount |-> 20]>>],
          \* a repayment of the whole balance with an extra of 5 cents and
          \* with one of 2 cents: as floats (10.0 + 0.05) - 10.0 is above
          \* 0.05 and (10.0 + 0.02) - 10.0 is below 0.02
          [base EXCEPT !.fixed_repayment = Some(1000),
                       !.extra_repayments = <<[payment_date |-> s + 1, amount |-> 5]>>],
          [base EXCEPT !.fixed_repayment = Some(1000),
                       !.extra_repayments = <<[payment_date |-> s + 1, amount |-> 2]>>],
          \* final rows whose principal and extra add up to the balance in
          \* cents and to less than it as floats: 10.04 + 0.01 against 10.05
          \* after the cap cut the payment, and 5.0 + 5.06 against 10.06
          \* with no cap at all
          [base EXCEPT !.principal = 10050, !.fixed_repayment = Some(1200),
                       !.extra_repayments = <<[payment_date |-> s + 1, amount |-> 1]>>],
          [base EXCEPT !.principal = 10060, !.loan_term = 1,
                       !.fixed_repayment = Some(500),
                       !.extra_repayments = <<[payment_date |-> s + 1, amount |-> 506]>>],
          \* the same float sum in a row whose repayment of 10.10 is within
          \* the dead-band of the calculated payment of 10.05
          [base EXCEPT !.principal = 10050, !.loan_term = 1,
                       !.fixed_repayment = Some(1010),
                       !.extra_repayments = <<[payment_date |-> s + 1, amount |-> 1]>>],
          \* no repayment scheduled, one period, and an extra of 5 cents
          \* that the float comparison finds below the overshoot
          [base EXCEPT !.loan_term = 1,
                       !.extra_repayments = <<[payment_date |-> s + 1, amount |-> 5]>>] }

InitSpecial ==
    \E p \in SpecialLoans :
        /\ frequency = p.frequency
        /\ start_date = p.start_date
        /\ principal = p.principal
        /\ annual_rate = p.annual_rate
        /\ loan_term = p.loan_term
        /\ fixed_repayment = p.fixed_repayment
        /\ rate_changes = p.rate_changes
        /\ extra_repayments = p.extra_repayments
        /\ repayment_changes = p.repayment_changes

SolverIdle ==
    /\ target_date = 0
    /\ adjust_rate_idx = NoneVal
    /\ low = 0
    /\ high = 0
    /\ best = NoneVal
    /\ steps = 0
    /\ outcome = NoneVal

ApiIdle ==
    /\ paid_repayments = EmptyBag
    /\ request = NoWhatIf
    /\ response = NoResponse

(***************************************************************************)
(* Specification Spec: one call of calculate_schedule                      *)
(***************************************************************************)
Init ==
    /\ \/ InitLoan /\ fixed_repayment \in Optional(Repayments) /\ InitEvents(MaxEvents)
       \/ InitSpecial
    /\ result = NoResult
    /\ pc = "ready"
    /\ SolverIdle
    /\ ApiIdle

CalculateSchedule ==
    /\ pc = "ready"
    /\ result' = calculate_schedule(principal, annual_rate, frequency, start_date,
                     loan_term, fixed_repayment, rate_changes, extra_repayments,
                     {}, repayment_changes)
    /\ pc' = IF result'.raised THEN "raised" ELSE "returned"
    /\ UNCHANGED <<args, solver, api>>

Next == CalculateSchedule

Spec == Init /\ [][Next]_vars

(***************************************************************************)
(* Specification SpecSolve: one call of find_repayment_for_target_date,    *)
(* one action per pass of its loop                                         *)
(***************************************************************************)
\* a day before the first payment date, and the second payment date
TargetDates(f, s) == {s + 3, add_period(s, f, 2)}

\* the search on a loan that needs more than 2000 periods at the lowest
\* repayments, with a target date after the last of them; the search on
\* a loan whose first calculated payment is 2.0 ** 1024, with a target date
\* before the first payment date; and the search on a loan whose interest
\* for one period is three times the principal, so that low starts above
\* high (it varies the adjusted repayment of a rate change to 0% dated
\* inside period 1); and the search for the repayment that pays $16.01
\* without interest in one payment, whose bounds close in on 16.01 as the
\* floats 16.0 + 0.01 and 16.02 - 0.01
SpecialSearch ==
    /\ start_date = ToOrdinal(2026, 1, 31)
    /\ extra_repayments = <<>>
    /\ repayment_changes = <<>>
    /\ \/ /\ frequency = "weekly"
          /\ principal = 30000
          /\ annual_rate = 0
          /\ loan_term = 3
          /\ fixed_repayment = NoneVal
          /\ rate_changes = <<>>
          /\ adjust_rate_idx = NoneVal
          /\ target_date = add_period(start_date, frequency, MAX_ITERATIONS)
       \/ /\ frequency = "weekly"
          /\ principal = 10000
          /\ annual_rate = RateDen * 52
          /\ loan_term = FloatMaxExp
          /\ fixed_repayment = NoneVal
          /\ rate_changes = <<>>
          /\ adjust_rate_idx = NoneVal
          /\ target_date = start_date + 3
       \/ /\ frequency = "monthly"
          /\ principal = 10000
          /\ annual_rate = 3 * RateDen * 12
          /\ loan_term = 3
          /\ fixed_repayment = Some(1500)
          /\ rate_changes = <<[effective_date |-> start_date + 3, annual_rate |-> 0,
                               adjusted_repayment |-> NoneVal]>>
          /\ adjust_rate_idx = Some(0)
          /\ target_date = add_period(start_date, frequency, 2)
       \/ /\ frequency = "weekly"
          /\ principal = 16010
          /\ annual_rate = 0
          /\ loan_term = 3
          /\ fixed_repayment = NoneVal
          /\ rate_changes = <<>>
          /\ adjust_rate_idx = NoneVal
          /\ target_date = add_period(start_date, frequency, 1)

InitSolve ==
    /\ \/ /\ InitLoan
          /\ InitEvents(MaxEvents - 1)
          /\ target_date \in TargetDates(frequency, start_date)
          /\ \/ adjust_rate_idx = NoneVal /\ fixed_repayment = NoneVal
             \/ /\ adjust_rate_idx \in {Some(k - 1) : k \in 1..Len(rate_changes)}
                /\ fixed_repayment \in {Some(v) : v \in Repayments}
       \/ SpecialSearch
    /\ low = 0
    /\ high = 0
    /\ best = NoneVal
    /\ steps = 0
    /\ outcome = NoneVal
    /\ result = NoResult
    /\ pc = "ready"
    /\ ApiIdle

\* lines 371-383: the bounds before the loop
SolveStart ==
    /\ pc = "ready"
    /\ low' = InitialLow(principal, annual_rate, frequency)
    /\ high' = InitialHigh(principal, frequency)
    /\ best' = NoneVal
    /\ steps' = 0
    /\ pc' = "search"
    /\ UNCHANGED <<args, result, target_date, adjust_rate_idx, outcome, api>>

AfterTrial_NoGuardBand(mid, sched, success) ==
    IF sched.raised
    THEN /\ pc' = "raised"
         /\ outcome' = <<"raised", "OverflowError">>
         /\ UNCHANGED <<low, high, best>>
    ELSE IF sched.rows = <<>>
    THEN /\ pc' = "exit"
         /\ UNCHANGED <<low, high, best, outcome>>
    ELSE /\ best' = IF success THEN BestOf(mid, sched) ELSE best
         /\ low' = IF success THEN low ELSE mid * SearchUnit(frequency)
         /\ high' = IF success THEN mid * SearchUnit(frequency) ELSE high
         /\ pc' = IF \/ HighBelowLow(low', high', principal, annual_rate, frequency)
                     \/ steps + 1 = MaxBisectionSteps
                  THEN "exit" ELSE "search"
         /\ UNCHANGED outcome

\* lines 415-430, given the trial's midpoint and schedule; an OverflowError
\* of the trial's calculate_schedule ends the call
AfterTrial(mid, sched, success) ==
    IF sched.raised
    THEN /\ pc' = "raised"
         /\ outcome' = <<"raised", "OverflowError">>
         /\ UNCHANGED <<low, high, best>>
    ELSE IF sched.rows = <<>>
    THEN /\ pc' = "exit"
         /\ UNCHANGED <<low, high, best, outcome>>
    ELSE /\ best' = IF success THEN BestOf(mid, sched) ELSE best
         /\ low' = IF success THEN low ELSE (mid + 1) * SearchUnit(frequency)
         /\ high' = IF success THEN (mid - 1) * SearchUnit(frequency) ELSE high
         /\ pc' = IF \/ HighBelowLow(low', high', principal, annual_rate, frequency)
                     \/ steps + 1 = MaxBisectionSteps
                  THEN "exit" ELSE "search"
         /\ UNCHANGED outcome

Trial(mid, sched) ==
    AfterTrial(mid, sched, sched.rows # <<>> /\ PaysOffBy(sched, target_date))

\* SolveTrial that writes the trial's adjusted_repayment into the caller's
\* rate_changes instead of into a copy
SolveTrial_InPlace ==
    /\ pc = "search"
    /\ Trial(Midpoint(low, high, principal, annual_rate, frequency),
             TrialSchedule(principal, annual_rate, frequency, start_date,
                 loan_term, Midpoint(low, high, principal, annual_rate, frequency), rate_changes,
                 extra_repayments, fixed_repayment, adjust_rate_idx,
                 repayment_changes))
    /\ steps' = steps + 1
    /\ rate_changes' =
           IF ~IsNone(adjust_rate_idx) /\ rate_changes # <<>>
           THEN [rate_changes EXCEPT ![adjust_rate_idx[1] + 1].adjusted_repayment =
                                         Some(Midpoint(low, high, principal, annual_rate, frequency))]
           ELSE rate_changes
    /\ UNCHANGED <<principal, annual_rate, frequency, start_date, loan_term,
                   fixed_repayment, extra_repayments, repayment_changes,
                   result, target_date, adjust_rate_idx, api>>

\* lines 384-430: one pass of the loop
SolveTrial ==
    /\ pc = "search"
    /\ Trial(Midpoint(low, high, principal, annual_rate, frequency),
             TrialSchedule(principal, annual_rate, frequency, start_date,
                 loan_term, Midpoint(low, high, principal, annual_rate, frequency), rate_changes,
                 extra_repayments, fixed_repayment, adjust_rate_idx,
                 repayment_changes))
    /\ steps' = steps + 1
    /\ UNCHANGED <<args, result, target_date, adjust_rate_idx, api>>

\* lines 432-434
SolveReturn ==
    /\ pc = "exit"
    /\ outcome' = IF IsNone(best) THEN <<"error", ErrorOutcome>>
                  ELSE <<"ok", best[1]>>
    /\ pc' = "returned"
    /\ UNCHANGED <<args, result, target_date, adjust_rate_idx, low, high, best,
                   steps, api>>

NextSolve == SolveStart \/ SolveTrial \/ SolveReturn

SpecSolve == InitSolve /\ [][NextSolve]_vars

(***************************************************************************)
(* Specification SpecApi: the schedule endpoints of one loan               *)
(***************************************************************************)
\* the bodies of POST /schedule/whatif
WhatIfRequests ==
    [fixed_repayment : Optional(Repayments),
     rate_changes : Optional({<<[effective_date |-> s + 3,
                                 annual_rate |-> 0,
                                 adjusted_repayment |-> NoneVal]>> :
                              s \in StartDates}),
     extra_repayments : {NoneVal}]

InitApi ==
    /\ InitLoan
    /\ fixed_repayment \in Optional(Repayments)
    /\ rate_changes = <<>>
    /\ extra_repayments = <<>>
    /\ repayment_changes = <<>>
    /\ result = NoResult
    /\ pc = "ready"
    /\ SolverIdle
    /\ ApiIdle

\* POST /paid/{n} on a table without the unique constraint: every call
\* inserts a record
mark_paid_NoUniqueConstraint(repayment_number) ==
    /\ paid_repayments' = paid_repayments (+) SetToBag({repayment_number})
    /\ UNCHANGED <<args, result, pc, solver, request, response>>

\* POST /paid/{n}: the unique constraint of models.py l.78-80 fails a second
\* insert, the handler rolls back and answers 200 all the same
mark_paid(repayment_number) ==
    /\ paid_repayments' = IF BagIn(repayment_number, paid_repayments)
                          THEN paid_repayments
                          ELSE paid_repayments (+) SetToBag({repayment_number})
    /\ UNCHANGED <<args, result, pc, solver, request, response>>

\* DELETE /paid/{n}
unmark_paid(repayment_number) ==
    /\ paid_repayments' = IF BagIn(repayment_number, paid_repayments)
                          THEN paid_repayments (-) SetToBag({repayment_number})
                          ELSE paid_repayments
    /\ UNCHANGED <<args, result, pc, solver, request, response>>

\* GET /schedule
get_schedule ==
    /\ request' = NoWhatIf
    /\ response' = Some(_build_schedule(loan, rate_changes, extra_repayments,
                                        repayment_changes, paid_set, NoWhatIf))
    /\ UNCHANGED <<args, result, pc, solver, paid_repayments>>

\* POST /schedule/whatif
whatif_schedule(whatif) ==
    /\ request' = whatif
    /\ response' = Some(_build_schedule(loan, rate_changes, extra_repayments,
                                        repayment_changes, paid_set, whatif))
    /\ UNCHANGED <<args, result, pc, solver, paid_repayments>>

NextApi ==
    \/ \E n \in 1..MaxPaidNumber : mark_paid(n)
    \/ \E n \in 1..MaxPaidNumber : unmark_paid(n)
    \/ get_schedule
    \/ \E w \in WhatIfRequests : whatif_schedule(w)

SpecApi == InitApi /\ [][NextApi]_vars

(***************************************************************************)
(* Properties of calculate_schedule, over Spec                             *)
(***************************************************************************)
\* the call has returned (an exception leaves pc at "raised")
Returned == pc = "returned"
Rows == result.rows
NumRows == Len(result.rows)
PaymentDate(k) == add_period(start_date, frequency, k)

\* the extra repayments dated in the window of period k (lines 284-285)
ExtrasInWindow(k) ==
    get_extras_for_period(IF k > 1 THEN PaymentDate(k - 1) ELSE start_date - 1,
                          PaymentDate(k), extra_repayments)

\* the repayment scheduled for period k: the override in force on its
\* payment date, else the calculated payment the row reports
PeriodRepayment(k) ==
    get_repayment_at_date(PaymentDate(k), fixed_repayment, rate_changes,
                          repayment_changes)
ScheduledPayment(k) ==
    IF IsNone(PeriodRepayment(k)) THEN Rows[k].calculated_pmt
    ELSE PeriodRepayment(k)[1]

RECURSIVE SumPrincipalAndExtra(_, _)
SumPrincipalAndExtra(rows, k) ==
    IF k = 0 THEN 0
    ELSE rows[k].principal + rows[k].extra + SumPrincipalAndExtra(rows, k - 1)

\* C1: a non-empty result without a warning ends on a closing balance of
\* exactly 0, so a schedule stopped by the iteration cap carries a warning
C1_ZeroUnlessWarned ==
    (Returned /\ Rows # <<>> /\ result.warning = NoWarning)
        => Rows[NumRows].closing_balance = 0

\* C2: rows are numbered 1..N with N = total_repayments, row 1 opens at the
\* principal rounded to cents, and each row opens where the previous closed
C2_RowsChained ==
    Returned =>
        /\ result.total_repayments = NumRows
        /\ \A k \in 1..NumRows : Rows[k].number = k
        /\ Rows # <<>> =>
               2 * Abs(Rows[1].opening_balance * MillsPerCent - principal)
                   <= MillsPerCent
        /\ \A k \in 1..(NumRows - 1) :
               Rows[k + 1].opening_balance = Rows[k].closing_balance

C2_Witness ==
    /\ Returned
    /\ NumRows >= 3
    /\ principal % MillsPerCent # 0
    /\ Rows[2].closing_balance # Rows[1].closing_balance

\* C3: no row opens or closes below zero, whatever the repayment, the rate
\* changes and the extras
C3_BalancesNonNegative ==
    Returned =>
        \A k \in 1..NumRows :
            Rows[k].opening_balance >= 0 /\ Rows[k].closing_balance >= 0

\* a row whose extras exceed its opening balance and whose repayment
\* exceeds the opening balance plus the interest
C3_Witness ==
    /\ Returned
    /\ \E k \in 1..NumRows :
           /\ ExtrasInWindow(k) > Rows[k].opening_balance
           /\ ~IsNone(PeriodRepayment(k))
           /\ PeriodRepayment(k)[1] > Rows[k].opening_balance + Rows[k].interest

\* C4, as stated: a period whose extras exceed its opening balance closes at
\* 0 and is the last row
C4_ExtrasAboveBalanceTerminate ==
    Returned =>
        \A k \in 1..NumRows :
            ExtrasInWindow(k) > Rows[k].opening_balance
                => Rows[k].closing_balance = 0 /\ k = NumRows

\* C4, amended: a period whose extras exceed its opening balance, and whose
\* scheduled payment is at least the period's interest, closes at 0 and is
\* the last row
C4_ExtrasAboveBalanceTerminateWhenInterestPaid ==
    Returned =>
        \A k \in 1..NumRows :
            (/\ ExtrasInWindow(k) > Rows[k].opening_balance
             /\ ScheduledPayment(k) >= Rows[k].interest)
                => Rows[k].closing_balance = 0 /\ k = NumRows

\* extras above the balance in a period that charges interest
C4_Witness ==
    /\ Returned
    /\ \E k \in 1..NumRows :
           /\ ExtrasInWindow(k) > Rows[k].opening_balance
           /\ Rows[k].interest > 0
           /\ ScheduledPayment(k) >= Rows[k].interest
           /\ Rows[k].closing_balance = 0

\* C5: the extra a row reports is at most the row's opening balance
C5_ExtraAtMostOpening ==
    Returned =>
        \A k \in 1..NumRows : Rows[k].extra <= Rows[k].opening_balance

\* C6: in a schedule that ends paid off, the principal and extra of all rows
\* sum to the original principal, to within one cent a row
C6_PrincipalRepaid ==
    (Returned /\ Rows # <<>> /\ Rows[NumRows].closing_balance = 0)
        => Abs(SumPrincipalAndExtra(Rows, NumRows) * MillsPerCent - principal)
               <= NumRows * MillsPerCent

\* a paid-off schedule of several rows, one of which had its extra cut
C6_Witness ==
    /\ Returned
    /\ NumRows >= 2
    /\ Rows[NumRows].closing_balance = 0
    /\ \E k \in 1..NumRows :
           Rows[k].extra > 0 /\ Rows[k].extra < ExtrasInWindow(k)

\* the inputs dated on or before d, and the rows up to k
RateChangesUpTo(d) == SelectSeq(rate_changes, LAMBDA e : e.effective_date <= d)
ExtrasUpTo(d) == SelectSeq(extra_repayments, LAMBDA e : e.payment_date <= d)
RepaymentChangesUpTo(d) ==
    SelectSeq(repayment_changes, LAMBDA e : e.effective_date <= d)
Prefix(rows, k) == SubSeq(rows, 1, Min(k, Len(rows)))

\* some entry is dated after d
EntriesAfter(d) ==
    \/ RateChangesUpTo(d) # rate_changes
    \/ ExtrasUpTo(d) # extra_repayments
    \/ RepaymentChangesUpTo(d) # repayment_changes

\* C7: leaving out the rate changes, repayment changes and extras dated
\* after the payment date of period k leaves rows 1..k as they are; so two
\* calls that agree on the entries dated up to then agree on rows 1..k
C7_RowsDependOnPast ==
    Returned =>
        \A k \in 1..MaxTerm :
            EntriesAfter(PaymentDate(k)) =>
                Prefix(Rows, k) =
                    Prefix(calculate_schedule(principal, annual_rate, frequency,
                               start_date, loan_term, fixed_repayment,
                               RateChangesUpTo(PaymentDate(k)),
                               ExtrasUpTo(PaymentDate(k)), {},
                               RepaymentChangesUpTo(PaymentDate(k))).rows, k)

\* a rate change and an extra dated after period k that change row k + 1
C7_Witness ==
    /\ Returned
    /\ \E k \in 1..MaxTerm :
           /\ k < NumRows
           /\ Len(RateChangesUpTo(PaymentDate(k))) < Len(rate_changes)
           /\ Len(ExtrasUpTo(PaymentDate(k))) < Len(extra_repayments)
           /\ Rows[k + 1].rate # Rows[k].rate
           /\ Rows[k + 1].extra > 0

(***************************************************************************)
(* Properties of the schedule endpoints, over SpecApi                      *)
(***************************************************************************)
BaseRows ==
    _build_schedule(loan, rate_changes, extra_repayments, repayment_changes,
                    paid_set, NoWhatIf).rows
ResponseRows == response[1].rows

\* C8: in the response to a what-if with another fixed_repayment, the rows of
\* the periods 1..k that are marked paid are the rows of the base schedule
C8_PaidRowsUnchanged ==
    (/\ response # NoResponse
     /\ ~IsNone(request.fixed_repayment)
     /\ request.fixed_repayment # fixed_repayment
     /\ \A j \in 1..Len(ResponseRows) :
            ResponseRows[j].is_paid <=> j \in paid_set)
        => \A k \in 1..Len(BaseRows) :
               (\A j \in 1..k : j \in paid_set)
                   => /\ k <= Len(ResponseRows)
                      /\ \A j \in 1..k : ResponseRows[j].row = BaseRows[j].row

(***************************************************************************)
(* Properties of find_repayment_for_target_date, over SpecSolve            *)
(***************************************************************************)
Ended == pc \in {"returned", "raised"}
Found == outcome # NoneVal /\ outcome[1] = "ok"
\* the schedule of the repayment the search returned
FoundSchedule ==
    calculate_schedule(principal, annual_rate, frequency, start_date, loan_term,
                       Some(outcome[2].required_repayment), rate_changes,
                       extra_repayments, {}, repayment_changes)

\* C9: the repayment returned by a search without adjust index gives a
\* schedule that ends at a closing balance of 0, without warning, on or
\* before the target date
C9_FoundRepaymentPaysOff ==
    (pc = "returned" /\ Found /\ IsNone(adjust_rate_idx))
        => /\ FoundSchedule.rows # <<>>
           /\ FoundSchedule.rows[Len(FoundSchedule.rows)].closing_balance = 0
           /\ FoundSchedule.warning = NoWarning
           /\ FoundSchedule.payoff_date[1] <= target_date

\* C10: a call whose target date is before the first payment date ends with
\* the structured error and not with an exception, and a repayment that is
\* returned is at least one cent
C10_StructuredErrorNoException ==
    /\ (Ended /\ target_date < PaymentDate(1))
           => outcome = <<"error", ErrorOutcome>>
    /\ Found => outcome[2].required_repayment >= 1

(***************************************************************************)
(* C11: find_repayment_for_target_date ends after at most 100 trials of    *)
(* at most 2000 rows each, and every pass of its loop narrows [low, high]  *)
(***************************************************************************)
\* A step of a call that has not ended, named by what it does to pc and
\* steps: each of SolveStart, SolveTrial and SolveReturn is such a step,
\* and each is enabled whenever pc has its value (the guards of NextSolve
\* are on pc alone)
CallRuns ==
    /\ pc \in {"ready", "search", "exit"}
    /\ pc' \in {"search", "exit", "returned", "raised"}
    /\ steps' \in {steps, steps + 1}

\* the call is synchronous: the interpreter runs it until it returns or
\* raises
SpecSolveFair == SpecSolve /\ WF_<<pc, steps>>(CallRuns)

Width == high - low

\* the schedule the pass of the loop in the current state runs
CurrentTrial ==
    TrialSchedule(principal, annual_rate, frequency, start_date, loan_term,
        Midpoint(low, high, principal, annual_rate, frequency), rate_changes, extra_repayments,
        fixed_repayment, adjust_rate_idx, repayment_changes)

TrialBounded ==
    pc = "search" => Len(CurrentTrial.rows) <= MAX_ITERATIONS

\* a pass that moved a bound put it one cent past the midpoint
MovesPastMidpoint ==
    /\ high' # high => high' = (Midpoint(low, high, principal, annual_rate, frequency) - 1) * SearchUnit(frequency)
    /\ low' # low => low' = (Midpoint(low, high, principal, annual_rate, frequency) + 1) * SearchUnit(frequency)

Narrowed ==
    /\ (low' # low) # (high' # high)
    /\ MovesPastMidpoint
    /\ Width' < Width

BoundsMoved == pc = "search" /\ <<low, high>>' # <<low, high>>

CapReached ==
    /\ NumRows = MAX_ITERATIONS
    /\ Rows[NumRows].closing_balance > 0

\* fixed_repayment <= principal * annual_rate / periods_per_year, with the
\* call's own principal and rate
BelowFirstInterest ==
    /\ ~IsNone(fixed_repayment)
    /\ fixed_repayment[1] * MillsPerCent * RateDen * periods_per_year(frequency)
           <= principal * annual_rate

\* C12: a call that ran all 2000 iterations without paying the loan off
\* returns (it does not raise) 2000 rows with the 'does not cover interest'
\* warning exactly when the fixed repayment is at most the first period's
\* simple interest, and with the 'exceeded' warning otherwise; every other
\* schedule has no warning
C12_CapWarningDistinguishes ==
    Returned =>
        IF CapReached
        THEN result.warning = (IF BelowFirstInterest THEN WarnInterest ELSE WarnExceeded)
        ELSE result.warning = NoWarning

(***************************************************************************)
(* C13: a loan with nothing but its term pays itself off within the term   *)
(***************************************************************************)
PlainLoan ==
    /\ IsNone(fixed_repayment)
    /\ rate_changes = <<>>
    /\ repayment_changes = <<>>
    /\ extra_repayments = <<>>
    /\ loan_term <= MAX_ITERATIONS

\* C13: with no fixed repayment and no dated entries, and a term within the
\* cap, the schedule has at most loan_term rows, no warning, a last
\* closing_balance of 0, and additional = 0 in every row
C13_PlainLoanPaidWithinTerm ==
    (Returned /\ PlainLoan) =>
        /\ NumRows <= loan_term
        /\ result.warning = NoWarning
        /\ Rows # <<>> => Rows[NumRows].closing_balance = 0
        /\ \A k \in 1..NumRows : Rows[k].additional = 0

(***************************************************************************)
(* C14: a period's interest is split by days exactly when a rate change    *)
(* is dated strictly inside the period                                     *)
(***************************************************************************)
PeriodStart(k) == IF k = 1 THEN start_date ELSE PaymentDate(k - 1)

RateOn(d) == get_rate_at_date(d, annual_rate, rate_changes)

\* some rate change is dated strictly inside period k
InteriorChange(k) ==
    \E j \in 1..Len(rate_changes) :
        /\ PeriodStart(k) < rate_changes[j].effective_date
        /\ rate_changes[j].effective_date < PaymentDate(k)

\* a rate change is dated on one of the two ends of period k
BoundaryChange(k) ==
    \E j \in 1..Len(rate_changes) :
        rate_changes[j].effective_date \in {PeriodStart(k), PaymentDate(k)}

\* the sum over the days d of from..(to - 1) of balance * (the rate on d)
RECURSIVE DailySum(_, _, _)
DailySum(balance, from, to) ==
    IF from >= to THEN 0
    ELSE balance * RateOn(from) + DailySum(balance, from + 1, to)

\* day-count interest of period k on the row's opening balance
DayCountInterest(k) ==
    RoundHalfEven(DailySum(Rows[k].opening_balance, PeriodStart(k), PaymentDate(k)), RateDen * 365)

\* balance * end-of-period rate / periods_per_year, rounded once
SimpleInterest(k) ==
    RoundHalfEven(Rows[k].opening_balance * RateOn(PaymentDate(k)), RateDen * periods_per_year(frequency))

\* C14: the interest of row k is the day-count interest if a rate change
\* is dated strictly between the previous payment date and the row's
\* payment date, and otherwise (also when a change is dated on either end
\* of the period) the simple interest at the end-of-period rate
C14_SplitIffInteriorChange ==
    Returned =>
        \A k \in 1..NumRows :
            Rows[k].interest = IF InteriorChange(k) THEN DayCountInterest(k)
                               ELSE SimpleInterest(k)

\* a schedule with a row whose only rate change is on an end of its period,
\* where the day-count interest would be another amount, and with a row
\* that has a change inside its period, where the simple interest would be
\* another amount
C14_Witness ==
    /\ Returned
    /\ \E k \in 1..NumRows :
           /\ BoundaryChange(k) /\ ~InteriorChange(k)
           /\ DayCountInterest(k) # SimpleInterest(k)
    /\ \E k \in 1..NumRows :
           /\ InteriorChange(k)
           /\ DayCountInterest(k) # SimpleInterest(k)

(***************************************************************************)
(* Specification SpecCalls: a caller makes calls of calculate_schedule and  *)
(* of find_repayment_for_target_date one after the other, as                *)
(* preview_rate_change does.  request is the current call as the caller    *)
(* wrote it and response is the caller's log of the calls that ended, in   *)
(* order.  A call that names the list of rate changes of the call before   *)
(* it is passed the same list object (new_rates in preview_rate_change),   *)
(* and a new call finds result, low, high, best, steps and outcome as the  *)
(* previous call left them.                                                *)
(***************************************************************************)
\* the caller makes at most MaxCalls calls
MaxCalls == 3

Calls ==
    LET s == ToOrdinal(2026, 1, 31)
        new_rates == <<[effective_date |-> s + 3, annual_rate |-> 0,
                        adjusted_repayment |-> NoneVal]>>
        calc == [fn |-> "calculate_schedule", frequency |-> "weekly", start_date |-> s,
                 principal |-> 10000, annual_rate |-> 52, loan_term |-> 3,
                 fixed_repayment |-> NoneVal, rate_changes |-> <<>>,
                 extra_repayments |-> <<>>, repayment_changes |-> <<>>,
                 target_date |-> 0, adjust_rate_idx |-> NoneVal]
        solve == [calc EXCEPT !.fn = "find_repayment_for_target_date"]
        \* a stored rate change with its adjusted repayment, and the new one
        two_rates == <<[effective_date |-> s + 3, annual_rate |-> 0,
                        adjusted_repayment |-> Some(300)],
                       [effective_date |-> s + 8, annual_rate |-> 52,
                        adjusted_repayment |-> NoneVal]>>
    IN  { calc,
          [calc EXCEPT !.fixed_repayment = Some(300)],
          [calc EXCEPT !.fixed_repayment = Some(300), !.rate_changes = new_rates],
          \* a target before the first payment date, and the second payment date
          [solve EXCEPT !.target_date = s + 3],
          [solve EXCEPT !.target_date = s + 14],
          [solve EXCEPT !.target_date = s + 14, !.fixed_repayment = Some(300),
                        !.rate_changes = new_rates, !.adjust_rate_idx = Some(0)],
          [solve EXCEPT !.target_date = s + 14, !.fixed_repayment = Some(1500),
                        !.rate_changes = two_rates, !.adjust_rate_idx = Some(1)] }

InitCalls ==
    /\ request \in Calls
    /\ frequency = request.frequency
    /\ start_date = request.start_date
    /\ principal = request.principal
    /\ annual_rate = request.annual_rate
    /\ loan_term = request.loan_term
    /\ fixed_repayment = request.fixed_repayment
    /\ rate_changes = request.rate_changes
    /\ extra_repayments = request.extra_repayments
    /\ repayment_changes = request.repayment_changes
    /\ target_date = request.target_date
    /\ adjust_rate_idx = request.adjust_rate_idx
    /\ result = NoResult
    /\ low = 0
    /\ high = 0
    /\ best = NoneVal
    /\ steps = 0
    /\ outcome = NoneVal
    /\ pc = "ready"
    /\ paid_repayments = EmptyBag
    /\ response = <<>>

\* the caller notes what the call that ended returned (or that it raised)
RecordCall ==
    /\ pc \in {"returned", "raised"}
    /\ response' = Append(response,
           [call |-> request,
            returned |-> IF request.fn = "calculate_schedule" THEN <<pc, result>>
                         ELSE <<pc, outcome>>])
    /\ pc' = "recorded"
    /\ UNCHANGED <<args, result, solver, paid_repayments, request>>

\* the caller starts another call
NewCall ==
    /\ pc = "recorded"
    /\ Len(response) < MaxCalls
    /\ request' \in Calls
    /\ frequency' = request'.frequency
    /\ start_date' = request'.start_date
    /\ principal' = request'.principal
    /\ annual_rate' = request'.annual_rate
    /\ loan_term' = request'.loan_term
    /\ fixed_repayment' = request'.fixed_repayment
    /\ rate_changes' = IF request'.rate_changes = request.rate_changes
                       THEN rate_changes ELSE request'.rate_changes
    /\ extra_repayments' = request'.extra_repayments
    /\ repayment_changes' = request'.repayment_changes
    /\ target_date' = request'.target_date
    /\ adjust_rate_idx' = request'.adjust_rate_idx
    /\ pc' = "ready"
    /\ UNCHANGED <<result, low, high, best, steps, outcome, paid_repayments, response>>

NextCalls ==
    \/ request.fn = "calculate_schedule" /\ CalculateSchedule
    \/ request.fn = "find_repayment_for_target_date" /\ SolveStart
    \/ request.fn = "find_repayment_for_target_date" /\ SolveTrial
    \/ request.fn = "find_repayment_for_target_date" /\ SolveReturn
    \/ RecordCall
    \/ NewCall

SpecCalls == InitCalls /\ [][NextCalls]_vars

\* C15: two calls with equal inputs return equal results, whatever calls
\* were made between them
C15_EqualInputsEqualResults ==
    \A i, j \in 1..Len(response) :
        response[i].call = response[j].call
            => response[i].returned = response[j].returned

\* the same call made twice with, in between, a call of the other function
\* that returned something
C15_Witness ==
    /\ Len(response) = MaxCalls
    /\ response[1].call = response[3].call
    /\ response[2].call.fn # response[1].call.fn
    /\ response[1].returned[1] = "returned"
    /\ response[2].returned[1] = "returned"

(***************************************************************************)
(* C19: the interest of a period with rate changes inside it               *)
(***************************************************************************)
\* the dates of the rate changes strictly inside period k
InteriorDates(k) ==
    {rate_changes[j].effective_date : j \in {i \in 1..Len(rate_changes) :
        /\ PeriodStart(k) < rate_changes[i].effective_date
        /\ rate_changes[i].effective_date < PaymentDate(k)}}

\* the sub-intervals of period k start at the period's start and at each
\* interior date; each ends where the next one starts
SubIntervalStarts(k) == {PeriodStart(k)} \cup InteriorDates(k)

SubIntervalEnd(k, c) ==
    CHOOSE x \in InteriorDates(k) \cup {PaymentDate(k)} :
        /\ x > c
        /\ \A y \in InteriorDates(k) \cup {PaymentDate(k)} : y > c => x <= y

\* sum over the sub-intervals starting in S of days, and of
\* balance * rate on the start date * days
RECURSIVE SumDays(_, _)
SumDays(k, S) ==
    IF S = {} THEN 0
    ELSE LET c == CHOOSE x \in S : TRUE
         IN  (SubIntervalEnd(k, c) - c) + SumDays(k, S \ {c})

RECURSIVE SumSubIntervals(_, _)
SumSubIntervals(k, S) ==
    IF S = {} THEN 0
    ELSE LET c == CHOOSE x \in S : TRUE
         IN  Rows[k].opening_balance * RateOn(c) * (SubIntervalEnd(k, c) - c)
             + SumSubIntervals(k, S \ {c})

\* C19: in a row whose period has rate-change dates strictly inside it, the
\* interest is the sum over the consecutive sub-intervals of
\* opening balance * rate on the sub-interval's start date / 365 * days,
\* rounded once; the days add up to the period's length; and the row's rate
\* is the rate on the payment date
C19_ProRatedInterest ==
    Returned =>
        \A k \in 1..NumRows :
            InteriorDates(k) # {} =>
                /\ Rows[k].interest =
                       RoundHalfEven(SumSubIntervals(k, SubIntervalStarts(k)), RateDen * 365)
                /\ SumDays(k, SubIntervalStarts(k)) = PaymentDate(k) - PeriodStart(k)
                /\ Rows[k].rate = RateOn(PaymentDate(k))

\* a row with two rate-change dates inside its period, whose three
\* sub-intervals carry three different rates
C19_Witness ==
    /\ Returned
    /\ \E k \in 1..NumRows :
           /\ Cardinality(InteriorDates(k)) = 2
           /\ Cardinality({RateOn(c) : c \in SubIntervalStarts(k)}) = 3
           /\ Rows[k].interest > 0

(***************************************************************************)
(* C20: get_rate_at_date                                                   *)
(***************************************************************************)
\* the indices of the rate changes in effect on d, and the one that wins:
\* greatest effective date, and among equal dates the last in the list
InEffect(d) == {j \in 1..Len(rate_changes) : rate_changes[j].effective_date <= d}

Winner(d) ==
    CHOOSE j \in InEffect(d) :
        \A i \in InEffect(d) :
            \/ rate_changes[i].effective_date < rate_changes[j].effective_date
            \/ rate_changes[i].effective_date = rate_changes[j].effective_date /\ i <= j

LatestRate(d) ==
    IF InEffect(d) = {} THEN annual_rate ELSE rate_changes[Winner(d)].annual_rate

\* the dates the lookup is tried on: the loan's start, and the day before,
\* the day of and the day after each rate change
QueryDates ==
    {start_date} \cup UNION {{rate_changes[j].effective_date - 1,
                              rate_changes[j].effective_date,
                              rate_changes[j].effective_date + 1} : j \in 1..Len(rate_changes)}

\* C20: get_rate_at_date gives the base rate when no change is in effect on
\* the date and otherwise the rate of the change with the greatest
\* effective date at or before it, the last of the list among changes of
\* one date, in whatever order the list is given; the rows report it
C20_RateAtDate ==
    /\ \A d \in QueryDates : RateOn(d) = LatestRate(d)
    /\ Returned => \A k \in 1..NumRows : Rows[k].rate = LatestRate(PaymentDate(k))

\* a schedule whose list holds a later change before an earlier one, and
\* one whose list holds two changes of one date with different rates
C20_Witness ==
    /\ Returned
    /\ NumRows >= 2
    /\ Len(rate_changes) = 2
    /\ \/ rate_changes[1].effective_date > rate_changes[2].effective_date
       \/ /\ rate_changes[1].effective_date = rate_changes[2].effective_date
          /\ rate_changes[1].annual_rate # rate_changes[2].annual_rate
    /\ Rows[2].rate # annual_rate

(***************************************************************************)
(* Properties of the paid endpoints, over SpecApi                          *)
(***************************************************************************)
\* the numbers of the rows GET /schedule returns now, and of those it tags
\* is_paid
NumbersOf(rows) == {rows[k].row.number : k \in 1..Len(rows)}
TaggedOf(rows) == {rows[k].row.number : k \in {j \in 1..Len(rows) : rows[j].is_paid}}
RowNumbers == NumbersOf(BaseRows)
Tagged == TaggedOf(BaseRows)
TaggedIffRecorded(rows) == \A n \in 1..MaxPaidNumber : n \in NumbersOf(rows) => (n \in TaggedOf(rows) <=> CopiesIn(n, paid_repayments) = 1)
PaidRecords(n) == CopiesIn(n, paid_repayments)

\* C17: a mark leaves exactly one paid record of its period, however often
\* it is repeated, and a row is tagged is_paid exactly when the last call
\* for its period was a mark: there is no record before the first call, a
\* mark leaves one record of its period and an unmark none, no call changes
\* the records of another period, and the schedule tags a row exactly when
\* its period has a record
C17_MarkPaidIdempotent ==
    /\ \A n \in 1..MaxPaidNumber : PaidRecords(n) = 0
    /\ [](\A n \in 1..MaxPaidNumber : PaidRecords(n) <= 1)
    /\ []TaggedIffRecorded(BaseRows)
    /\ [][\A n \in 1..MaxPaidNumber :
             /\ mark_paid(n) => PaidRecords(n)' = 1
             /\ unmark_paid(n) => PaidRecords(n)' = 0
             /\ ~mark_paid(n) /\ ~unmark_paid(n) => PaidRecords(n)' = PaidRecords(n)]_vars

\* period 1 is marked and tagged, period 2 is unmarked and untagged after
\* a schedule was returned that tagged both
C17_Witness ==
    /\ BagToSet(paid_repayments) = {1}
    /\ PaidRecords(1) = 1
    /\ Tagged = {1}
    /\ 2 \in RowNumbers
    /\ response # <<>>
    /\ Len(ResponseRows) >= 2
    /\ ResponseRows[1].is_paid
    /\ ResponseRows[2].is_paid

(***************************************************************************)
(* routers/loans.py: the loan, rate-change and repayment-change endpoints  *)
(* on one stored loan.  A table is the list of its rows in id order and a  *)
(* row's position stands for its id; db is the loan with its tables.       *)
(***************************************************************************)
Db == [loan |-> loan, rate_changes |-> rate_changes, extra_repayments |-> extra_repayments, repayment_changes |-> repayment_changes]

\* the row of table at position id removed
WithoutRow(table, id) == [k \in 1..(Len(table) - 1) |-> IF k < id THEN table[k] ELSE table[k + 1]]

\* l.42-46: every field the request sets is assigned, no field is checked
\* against the stored rate changes and repayment changes
SetFields(row, updates) == [key \in DOMAIN row |-> IF key \in DOMAIN updates THEN updates[key] ELSE row[key]]

\* PUT /{loan_id}
update_loan(db, updates) == [db EXCEPT !.loan = SetFields(db.loan, updates)]

\* POST /{loan_id}/rates that stores the adjusted repayment as the loan's
\* fixed repayment too
add_rate_change_SetsLoanRepayment(db, rc) ==
    IF rc.effective_date < db.loan.start_date THEN db
    ELSE [db EXCEPT !.rate_changes = Append(db.rate_changes, rc),
                    !.loan.fixed_repayment = IF IsNone(rc.adjusted_repayment) THEN @
                                             ELSE rc.adjusted_repayment]

\* POST /{loan_id}/rates: 422 and nothing stored when the date is before
\* the loan's start date, else a new row
add_rate_change(db, rc) ==
    IF rc.effective_date < db.loan.start_date THEN db
    ELSE [db EXCEPT !.rate_changes = Append(db.rate_changes, rc)]

\* PUT /{loan_id}/rates/{rate_id}: 404 when there is no such row
update_rate_change(db, rate_id, updates) ==
    IF rate_id \notin 1..Len(db.rate_changes) THEN db
    ELSE [db EXCEPT !.rate_changes[rate_id] = SetFields(@, updates)]

\* DELETE /{loan_id}/rates/{rate_id}
delete_rate_change(db, rate_id) ==
    IF rate_id \notin 1..Len(db.rate_changes) THEN db
    ELSE [db EXCEPT !.rate_changes = WithoutRow(@, rate_id)]

\* POST /{loan_id}/repayment-changes
add_repayment_change(db, rc) ==
    IF rc.effective_date < db.loan.start_date THEN db
    ELSE [db EXCEPT !.repayment_changes = Append(db.repayment_changes, rc)]

\* DELETE /{loan_id}/repayment-changes/{change_id}
delete_repayment_change(db, change_id) ==
    IF change_id \notin 1..Len(db.repayment_changes) THEN db
    ELSE [db EXCEPT !.repayment_changes = WithoutRow(@, change_id)]

\* the request bodies: dates on the day before the first start date, inside
\* its period 1 and inside weekly period 2
CrudDates == UNION {{s - 1, s + 3, s + 10} : s \in StartDates}
RateChangeCreates(f) == [effective_date : CrudDates, annual_rate : Rates(f), adjusted_repayment : Optional({300})]
RepaymentChangeCreates == [effective_date : CrudDates, amount : {1500}]
\* a later start date and the first one again, another rate, a fixed
\* repayment set and cleared
LoanUpdates(f) ==
    {[start_date |-> s + 7] : s \in StartDates}
    \cup {[start_date |-> s] : s \in StartDates}
    \cup {[annual_rate |-> r] : r \in Rates(f)}
    \cup {[fixed_repayment |-> r] : r \in Optional({1500})}
\* schemas.py has no RateChangeUpdate: the requests set the rate only
RateChangeUpdates(f) == {[annual_rate |-> r] : r \in Rates(f)}

\* db.commit()
Commit(db) ==
    /\ principal' = db.loan.principal
    /\ annual_rate' = db.loan.annual_rate
    /\ frequency' = db.loan.frequency
    /\ start_date' = db.loan.start_date
    /\ loan_term' = db.loan.loan_term
    /\ fixed_repayment' = db.loan.fixed_repayment
    /\ rate_changes' = db.rate_changes
    /\ extra_repayments' = db.extra_repayments
    /\ repayment_changes' = db.repayment_changes
    /\ UNCHANGED <<result, pc, solver, api>>

StoredRows == Len(rate_changes) + Len(extra_repayments) + Len(repayment_changes)

put_loan == \E updates \in LoanUpdates(frequency) : Commit(update_loan(Db, updates))
post_rates == \E rc \in RateChangeCreates(frequency) : StoredRows < MaxEvents /\ Commit(add_rate_change(Db, rc))
put_rates == \E id \in 1..MaxEvents, updates \in RateChangeUpdates(frequency) : Commit(update_rate_change(Db, id, updates))
delete_rates == \E id \in 1..MaxEvents : Commit(delete_rate_change(Db, id))
post_repayment_changes == \E rc \in RepaymentChangeCreates : StoredRows < MaxEvents /\ Commit(add_repayment_change(Db, rc))
delete_repayment_changes == \E id \in 1..MaxEvents : Commit(delete_repayment_change(Db, id))

\* POST /api/loans: a loan at 1/10 a period over MaxTerm periods, no rows
InitCrud ==
    /\ frequency \in Frequencies
    /\ start_date \in StartDates
    /\ principal = 10000
    /\ annual_rate = periods_per_year(frequency)
    /\ loan_term = MaxTerm
    /\ fixed_repayment = NoneVal
    /\ rate_changes = <<>>
    /\ extra_repayments = <<>>
    /\ repayment_changes = <<>>
    /\ result = NoResult
    /\ pc = "ready"
    /\ SolverIdle
    /\ ApiIdle

NextCrud ==
    \/ put_loan
    \/ post_rates
    \/ put_rates
    \/ delete_rates
    \/ post_repayment_changes
    \/ delete_repayment_changes

SpecCrud == InitCrud /\ [][NextCrud]_vars

(***************************************************************************)
(* Properties of the loan endpoints, over SpecCrud                         *)
(***************************************************************************)
\* what GET /schedule returns for the rows db
Schedule(db) == _build_schedule(db.loan, db.rate_changes, db.extra_repayments, db.repayment_changes, paid_set, NoWhatIf)
Accepted(db, after) == after # db
WithRate(rc) == add_rate_change(Db, rc)
WithRepayment(rc) == add_repayment_change(Db, rc)

\* C16: from every stored loan, a rate change (with or without an adjusted
\* repayment) or a repayment change that is added and then deleted leaves
\* the schedule that was returned before the add
C16_AddThenDeleteRestoresSchedule ==
    /\ \A rc \in RateChangeCreates(frequency) :
           Accepted(Db, WithRate(rc)) =>
               Schedule(delete_rate_change(WithRate(rc), Len(WithRate(rc).rate_changes))) = Schedule(Db)
    /\ \A rc \in RepaymentChangeCreates :
           Accepted(Db, WithRepayment(rc)) =>
               Schedule(delete_repayment_change(WithRepayment(rc), Len(WithRepayment(rc).repayment_changes))) = Schedule(Db)

\* a loan with stored rows where a rate change with an adjusted repayment,
\* one without and a repayment change each change the schedule when added
C16_Witness ==
    /\ rate_changes # <<>>
    /\ repayment_changes # <<>>
    /\ \E rc \in RateChangeCreates(frequency) :
           /\ ~IsNone(rc.adjusted_repayment)
           /\ Schedule(WithRate(rc)).rows # Schedule(Db).rows
    /\ \E rc \in RateChangeCreates(frequency) :
           /\ IsNone(rc.adjusted_repayment)
           /\ Schedule(WithRate(rc)).rows # Schedule(Db).rows
    /\ \E rc \in RepaymentChangeCreates :
           Schedule(WithRepayment(rc)).rows # Schedule(Db).rows

\* C18: every stored rate change and repayment change is dated on or after
\* the loan's start date
C18_ChangesNotBeforeStartDate ==
    /\ \A i \in 1..Len(rate_changes) : rate_changes[i].effective_date >= start_date
    /\ \A i \in 1..Len(repayment_changes) : repayment_changes[i].effective_date >= start_date

(***************************************************************************)
(* C21: get_repayment_at_date                                              *)
(***************************************************************************)
\* the overrides in effect on d: <<1, j>> is the adjusted repayment of rate
\* change j, <<2, j>> is repayment change j
OverridesInEffect(d) ==
    {<<1, j>> : j \in {i \in 1..Len(rate_changes) :
                          /\ ~IsNone(rate_changes[i].adjusted_repayment)
                          /\ rate_changes[i].effective_date <= d}}
    \cup {<<2, j>> : j \in {i \in 1..Len(repayment_changes) :
                               repayment_changes[i].effective_date <= d}}
OverrideDate(c) == IF c[1] = 1 THEN rate_changes[c[2]].effective_date ELSE repayment_changes[c[2]].effective_date
OverrideAmount(c) == IF c[1] = 1 THEN rate_changes[c[2]].adjusted_repayment[1] ELSE repayment_changes[c[2]].amount

\* the one that wins: greatest date; among equal dates a repayment change
\* before an adjusted repayment, and the later entry of one list
WinningOverride(d) ==
    CHOOSE c \in OverridesInEffect(d) :
        \A o \in OverridesInEffect(d) :
            \/ OverrideDate(o) < OverrideDate(c)
            \/ /\ OverrideDate(o) = OverrideDate(c)
               /\ o[1] < c[1] \/ (o[1] = c[1] /\ o[2] <= c[2])

LatestOverride(d, base) ==
    IF IsNone(base) THEN NoneVal
    ELSE IF OverridesInEffect(d) = {} THEN base
    ELSE Some(OverrideAmount(WinningOverride(d)))

\* the dates the lookup is tried on: the loan's start, and the day before,
\* the day of and the day after each rate change and repayment change
OverrideQueryDates ==
    {start_date}
    \cup UNION {{rate_changes[j].effective_date - 1, rate_changes[j].effective_date,
                 rate_changes[j].effective_date + 1} : j \in 1..Len(rate_changes)}
    \cup UNION {{repayment_changes[j].effective_date - 1, repayment_changes[j].effective_date,
                 repayment_changes[j].effective_date + 1} : j \in 1..Len(repayment_changes)}

FirstPeriodFrom(d) ==
    IF \E k \in 1..NumRows : PaymentDate(k) >= d
    THEN CHOOSE k \in 1..NumRows :
             /\ PaymentDate(k) >= d
             /\ \A j \in 1..NumRows : PaymentDate(j) >= d => k <= j
    ELSE 0

\* the amounts of the extras i..Len dated on or after the start date whose
\* first period is k
RECURSIVE ExtrasDueIn(_, _)
ExtrasDueIn(k, i) ==
    IF i > Len(extra_repayments) THEN 0
    ELSE (IF /\ extra_repayments[i].payment_date >= start_date
             /\ FirstPeriodFrom(extra_repayments[i].payment_date) = k
          THEN extra_repayments[i].amount ELSE 0)
         + ExtrasDueIn(k, i + 1)

\* C22: every extra dated from the start date to the last payment date is
\* counted in the first period whose payment date is on or after its date
\* and in no other, an extra dated before the start date in none: every
\* row but the last reports the sum of the extras whose first period it
\* is, and the last row (whose extra the cap on overpayment may cut) no
\* more than that
C22_ExtraCountedInFirstPeriodFrom ==
    Returned =>
        /\ \A k \in 1..(NumRows - 1) : Rows[k].extra = ExtrasDueIn(k, 1)
        /\ NumRows > 0 =>
               /\ Rows[NumRows].extra <= ExtrasDueIn(NumRows, 1)
               /\ Rows[NumRows].principal + ExtrasDueIn(NumRows, 1) <= Rows[NumRows].opening_balance
                      => Rows[NumRows].extra = ExtrasDueIn(NumRows, 1)

\* extras dated the day before the start date, on the start date, on the
\* first payment date and the day after it, in a schedule of three rows
C22_Witness ==
    /\ Returned
    /\ NumRows >= 3
    /\ {start_date - 1, start_date, PaymentDate(1), PaymentDate(1) + 1}
           \subseteq {extra_repayments[i].payment_date : i \in 1..Len(extra_repayments)}
    /\ Rows[1].extra > 0
    /\ Rows[2].extra > 0
    /\ Rows[3].extra = 0

(***************************************************************************)
(* C23: the cap on overpayment                                             *)
(***************************************************************************)
\* what period k would pay towards the principal before the cap: the
\* scheduled payment less the interest, plus the extras due in the period
UncappedPrincipal(k) == ScheduledPayment(k) - Rows[k].interest
Overshoot(k) == UncappedPrincipal(k) + ExtrasDueIn(k, 1) - Rows[k].opening_balance
ExtraAbsorbs(k) == ExtrasDueIn(k, 1) > 0 /\ ExtrasDueIn(k, 1) >= Overshoot(k)

\* C23: in a row whose scheduled principal plus extra exceeds the opening
\* balance, either the extra is positive and at least the overshoot, and
\* then the scheduled payment is kept and the extra is cut by exactly the
\* overshoot, or the extra is kept and the payment is interest + balance -
\* extra; either way principal + extra is the opening balance
C23_OvershootCap ==
    Returned =>
        \A k \in 1..NumRows :
            Overshoot(k) > 0 =>
                /\ IF ExtraAbsorbs(k)
                   THEN /\ Rows[k].principal + Rows[k].interest = ScheduledPayment(k)
                        /\ Rows[k].extra = ExtrasDueIn(k, 1) - Overshoot(k)
                   ELSE /\ Rows[k].extra = ExtrasDueIn(k, 1)
                        /\ Rows[k].principal + Rows[k].interest
                               = Rows[k].interest + Rows[k].opening_balance - Rows[k].extra
                /\ Rows[k].principal + Rows[k].extra = Rows[k].opening_balance

(***************************************************************************)
(* C24: the final row of a schedule paid off by a scheduled repayment      *)
(***************************************************************************)
\* the schedule is paid off and a repayment was scheduled for its last row
FinalRowScheduled ==
    /\ Returned
    /\ NumRows >= 1
    /\ Rows[NumRows].closing_balance = 0
    /\ ~IsNone(PeriodRepayment(NumRows))

\* C24: in the final row of a paid-off schedule with a scheduled repayment,
\* calculated_pmt is interest + (opening_balance - extra), additional is
\* the payment applied less that, and calculated_pmt is at most the
\* scheduled repayment
C24_FinalRowCap ==
    FinalRowScheduled =>
        /\ Rows[NumRows].calculated_pmt
               = Rows[NumRows].interest + (Rows[NumRows].opening_balance - Rows[NumRows].extra)
        /\ Rows[NumRows].additional
               = Rows[NumRows].principal + Rows[NumRows].interest - Rows[NumRows].calculated_pmt
        /\ Rows[NumRows].calculated_pmt <= PeriodRepayment(NumRows)[1]

(***************************************************************************)
(* C25: the dead-band of the additional amount                             *)
(***************************************************************************)
\* the payment line 271 calculates for period k, from the row's opening
\* balance and rate
CalculatedPayment(k) ==
    pmt(Rows[k].rate, RateDen * periods_per_year(frequency),
        Max(loan_term - (k - 1), 1), Rows[k].opening_balance)

\* the repayment scheduled for period k is within the dead-band of the
\* calculated payment
InDeadBand(k) ==
    /\ ~IsNone(PeriodRepayment(k))
    /\ Abs(PeriodRepayment(k)[1] - CalculatedPayment(k)) < DeadBand

\* C25: in every row additional is 0 or at least the dead-band in absolute
\* value, and a row whose scheduled repayment is within the dead-band of
\* the calculated payment reports additional 0 and the scheduled repayment
\* as calculated_pmt
C25_DeadBand ==
    Returned =>
        \A k \in 1..NumRows :
            /\ Rows[k].additional = 0 \/ Abs(Rows[k].additional) >= DeadBand
            /\ InDeadBand(k) =>
                   /\ Rows[k].additional = 0
                   /\ Rows[k].calculated_pmt = PeriodRepayment(k)[1]

(***************************************************************************)
(* C28: the balance of every row                                           *)
(***************************************************************************)
\* C28: in every row the closing balance is the opening balance less the
\* principal and the extra the row reports
C28_ClosingBalance ==
    Returned =>
        \A k \in 1..NumRows :
            Rows[k].closing_balance
                = Rows[k].opening_balance - Rows[k].principal - Rows[k].extra

\* a schedule of two rows or more whose last row reports a part of the
\* extras due in it, cut by the cap on overpayment, next to a payment
\* below the scheduled one
C28_Witness ==
    /\ Returned
    /\ NumRows >= 2
    /\ Rows[NumRows].closing_balance = 0
    /\ Rows[NumRows].extra > 0
    /\ Rows[NumRows].extra < ExtrasDueIn(NumRows, 1)
    /\ Rows[1].closing_balance = Rows[1].opening_balance - Rows[1].principal - Rows[1].extra
    /\ Rows[1].closing_balance > 0

(***************************************************************************)
(* C29: the payment of a row and its split                                 *)
(***************************************************************************)
\* the payment applied in period k
AppliedPayment(k) == Rows[k].principal + Rows[k].interest

\* C29: in every row calculated_pmt + additional is the payment applied,
\* principal + interest; with no repayment scheduled for the row,
\* calculated_pmt alone is the payment applied
C29_PaymentSplit ==
    Returned =>
        \A k \in 1..NumRows :
            /\ Rows[k].calculated_pmt + Rows[k].additional = AppliedPayment(k)
            /\ IsNone(PeriodRepayment(k)) => Rows[k].calculated_pmt = AppliedPayment(k)

(***************************************************************************)
(* C26: the repayment a search without adjust index returns                *)
(***************************************************************************)
\* the smallest amount of whole cents that is at least
\* principal * rate_per_period + 0.01
LowestCandidate ==
    (InitialLow(principal, annual_rate, frequency) + SearchUnit(frequency) - 1)
        \div SearchUnit(frequency)

\* the number of payment dates on or before the target date, at most
\* MAX_ITERATIONS: a period is a week or longer
PeriodsByTarget ==
    IF PaymentDate(MAX_ITERATIONS) <= target_date THEN MAX_ITERATIONS
    ELSE Cardinality({k \in 1..Min(MAX_ITERATIONS, Max(0, (target_date - start_date) \div 7)) :
                         PaymentDate(k) <= target_date})

\* the loop of calculate_schedule with fixed repayment r, run over the
\* periods up to the target date
LoopToTarget(r) ==
    RunLoop([frequency |-> frequency, start_date |-> start_date,
             annual_rate |-> annual_rate, loan_term |-> loan_term,
             fixed_repayment |-> Some(r), rate_changes |-> rate_changes,
             extra_repayments |-> extra_repayments,
             repayment_changes |-> repayment_changes],
            [i |-> 1, balance |-> RoundHalfEven(principal, MillsPerCent),
             rows |-> <<>>, total_interest |-> 0, total_paid |-> 0,
             broke |-> FALSE, raised |-> FALSE],
            PeriodsByTarget)

\* the schedule with fixed repayment r has its last row on or before the
\* target date: the loop ends within the periods up to then, at a balance
\* of 0 or at the iteration cap
EndsByTarget(st) ==
    /\ ~st.raised
    /\ st.rows # <<>>
    /\ st.broke \/ Len(st.rows) = MAX_ITERATIONS

CandidatePaysOff(r) == EndsByTarget(LoopToTarget(r))

\* C26: the repayment R that a search without adjust index returns pays
\* off by the target date, and no amount of whole cents from
\* principal * rate_per_period + 0.01 up to R - 0.01 does
C26_SmallestRepayment ==
    (pc = "returned" /\ Found /\ IsNone(adjust_rate_idx))
        => /\ outcome[2].payoff_date <= target_date
           /\ \A r \in LowestCandidate..(outcome[2].required_repayment - 1) :
                  ~CandidatePaysOff(r)

(***************************************************************************)
(* C27: what a search that varies a rate change passes to the engine       *)
(***************************************************************************)
\* the trial about to be made varies an entry of rate_changes
VariesRateChange ==
    /\ request.fn = "find_repayment_for_target_date"
    /\ pc = "search"
    /\ AdjustsRateChange(rate_changes, adjust_rate_idx)

\* the entries of trial_rates other than entry adjust_rate_idx are those of
\* rate_changes, and that entry differs in its adjusted_repayment alone,
\* which is mid
OnlyAdjustedVaries(trial_rates, mid) ==
    /\ Len(trial_rates) = Len(rate_changes)
    /\ \A k \in 1..Len(rate_changes) :
           IF k = adjust_rate_idx[1] + 1
           THEN /\ trial_rates[k].effective_date = rate_changes[k].effective_date
                /\ trial_rates[k].annual_rate = rate_changes[k].annual_rate
                /\ trial_rates[k].adjusted_repayment = Some(mid)
           ELSE trial_rates[k] = rate_changes[k]

\* C27: in a search with adjust_rate_idx and a non-empty rate_changes, every
\* trial passes the engine the caller's fixed_repayment and a list of rate
\* changes that differs from the caller's in the adjusted_repayment of
\* entry adjust_rate_idx alone, and the caller's rate_changes and
\* fixed_repayment are at every point of the call, and after it, what the
\* caller wrote
C27_TrialVariesOneEntry ==
    /\ (request.fn = "find_repayment_for_target_date" /\ ~IsNone(request.adjust_rate_idx))
           => /\ rate_changes = request.rate_changes
              /\ fixed_repayment = request.fixed_repayment
    /\ VariesRateChange
           => /\ TrialRepayment(fixed_repayment, rate_changes, adjust_rate_idx,
                     Midpoint(low, high, principal, annual_rate, frequency))
                  = fixed_repayment
              /\ OnlyAdjustedVaries(
                     TrialRates(rate_changes, adjust_rate_idx,
                         Midpoint(low, high, principal, annual_rate, frequency)),
                     Midpoint(low, high, principal, annual_rate, frequency))

\* a search over the adjusted repayment of the second of two rate changes
\* has returned a repayment after several trials, and the caller has noted
\* the result
C27_Witness ==
    /\ pc = "recorded"
    /\ request.fn = "find_repayment_for_target_date"
    /\ request.adjust_rate_idx = Some(1)
    /\ Len(rate_changes) = 2
    /\ steps >= 3
    /\ Found
    /\ outcome[2].required_repayment # rate_changes[1].adjusted_repayment[1]

(***************************************************************************)
(* C30: payments_made and progress_pct of a schedule response              *)
(***************************************************************************)
\* 100.0, in the tenths of a percent of ProgressPct
FullProgress == 1000

\* C30: every schedule response, of GET /schedule and of POST
\* /schedule/whatif, reports a payments_made of at most total_repayments
\* and a progress_pct from 0 to 100
C30_ProgressWithinSchedule ==
    (response # NoResponse /\ response[1] # ServerError)
        => /\ response[1].summary.payments_made <= response[1].summary.total_repayments
           /\ response[1].summary.progress_pct >= 0
           /\ response[1].summary.progress_pct <= FullProgress

====
